---- MODULE Spec2Model ----
(***************************************************************************)
(* A model of the insurance form filler: the seeded data generator         *)
(* (data-generator.js), the per-run-id dataset store it keeps on disk, the *)
(* AI content cache, and the form filler (fill-form.js, kept in the file   *)
(* find-yesno.js, whose line numbers are the ones quoted) with its         *)
(* checkbox widget handling.                                               *)
(*                                                                         *)
(* Conventions.                                                            *)
(*  - Dates are day numbers (integers): an ISO date string of the code is  *)
(*    the day it denotes; a year is YearDays days, a month MonthDays days. *)
(*  - Money is in integer cents.                                           *)
(*  - A JavaScript null in a date-valued field is the number null.         *)
(*  - A string that the code assembles from dates is the sequence of the   *)
(*    day numbers it is assembled from; the empty string is << >>.         *)
(*  - faker is a stream of raw draws: seed(n) resets the stream state, each*)
(*    faker call advances it by one step and maps the raw draw into the    *)
(*    range the call asks for.  The stream is a multiplicative congruential*)
(*    generator standing for faker's generator.                            *)
(***************************************************************************)
EXTENDS Integers, Sequences, FiniteSets, TLC

(***************************************************************************)
(* Bounds of the model.                                                    *)
(***************************************************************************)
MaxSeed == 400
MaxTicks == 1
StartDay == 30000
MaxWidgets == 2
MaxBuilds == 3
MaxRuns == 2
MaxScriptTicks == 4

(***************************************************************************)
(* Calendar and number-representation constants.                           *)
(***************************************************************************)
YearDays == 365
MonthDays == 30
null == -1
RngPrime == 32749
RngMul == 219
Half == 65536
SignBit == 32768

(***************************************************************************)
(* faker: the seeded stream.                                               *)
(***************************************************************************)
\* faker.seed(n): the stream state after seeding with n.
SeedState(n) == 1 + (n % (RngPrime - 1))

\* One step of the stream.
Advance(s) == (s * RngMul) % RngPrime

\* a^k modulo RngPrime, by repeated squaring.
RECURSIVE PowMod(_, _)
PowMod(a, k) ==
    IF k = 0 THEN 1
    ELSE LET h == PowMod(a, k \div 2)
             sq == (h * h) % RngPrime
         IN  IF k % 2 = 0 THEN sq ELSE (sq * a) % RngPrime

\* The state after k draws from state s: k steps of Advance.
After(s, k) == (PowMod(RngMul, k) * s) % RngPrime

\* The raw value of the k-th draw (k >= 1) from state s.
Raw(s, k) == After(s, k)

\* faker.number.int({min, max})
FakerInt(raw, min, max) == min + (raw % (max - min + 1))

\* faker.number.float({min, max, fractionDigits: 2}), in cents.
FakerFloatCents(raw, minC, maxC) ==
    LET units == (maxC - minC) \div 100
    IN  minC + (((raw \div 100) % units) * 100) + (raw % 100)

\* faker.datatype.boolean({probability}), the probability in percent.
FakerBool(raw, pct) ==
    IF pct <= 0 THEN FALSE
    ELSE IF pct >= 100 THEN TRUE
    ELSE (raw % 100) < pct

\* faker.helpers.arrayElement(list)
ArrayElement(raw, list) == list[1 + (raw % Len(list))]

(***************************************************************************)
(* hashString: hash = ((hash << 5) - hash) + char, truncated to a signed   *)
(* 32-bit integer after every character, then Math.abs.  The 32-bit value  *)
(* is kept as two 16-bit halves so that no intermediate value overflows.   *)
(***************************************************************************)
HashStep(h, c) ==
    LET lo31 == (h.lo * 31) + c
        lo   == lo31 % Half
        hi   == ((h.hi * 31) + (lo31 \div Half)) % Half
    IN  [hi |-> hi, lo |-> lo]

RECURSIVE HashFrom(_, _, _)
HashFrom(h, str, i) ==
    IF i > Len(str) THEN h ELSE HashFrom(HashStep(h, str[i]), str, i + 1)

\* The signed 32-bit value of the two halves.
Signed32(h) ==
    IF h.hi >= SignBit THEN ((h.hi - Half) * Half) + h.lo ELSE (h.hi * Half) + h.lo

Abs(n) == IF n < 0 THEN 0 - n ELSE n

\* str is the sequence of the character codes of the string.
hashString(str) == Abs(Signed32(HashFrom([hi |-> 0, lo |-> 0], str, 1)))

(***************************************************************************)
(* The data faker draws from, reduced to small pools.                      *)
(***************************************************************************)
FirstNames == <<"James", "Mary", "Robert", "Linda">>
LastNames == <<"Smith", "Garcia", "Nguyen">>
Letters == <<"A", "B", "C", "D", "E">>
CompanyNames == <<"Acme LLC", "Globex Inc", "Initech Group">>
JobTitles == <<"Accountant", "Welder", "Nurse">>
BuzzNouns == <<"synergies", "networks">>
WagesContinuedTypes == <<"PTO", "Sick time", "Salary continuation">>

\* SampleDisabilityDescriptions (the texts shortened).
SampleDisabilityDescriptions ==
    << [line1 |-> "Lower back strain with herniated disc L4-L5.",
        line2 |-> "Occurred while lifting boxes at home."],
       [line1 |-> "Right knee injury - torn meniscus.",
        line2 |-> "Slipped on ice in parking lot."],
       [line1 |-> "Post-surgical recovery following appendectomy.",
        line2 |-> "Emergency surgery performed."],
       [line1 |-> "Severe migraine disorder with visual aura.",
        line2 |-> "Condition worsened significantly."],
       [line1 |-> "Fractured right wrist (distal radius) from fall.",
        line2 |-> "Fell on stairs at home."] >>

\* The checkbox facts in the order generateBaseData draws them, with the
\* probability of each in percent.
CheckboxOrder ==
    << "gender", "didWorkOnDisabilityDay", "hasRecovered", "workedForWages",
       "unionMember", "receivingWages", "unemploymentBenefits",
       "paidFamilyLeave", "workersComp", "noFaultAccident", "thirdPartyInjury",
       "longTermDisability", "priorDisability", "priorPFL",
       "employerProvidedRights", "wagesContinued", "reimbursementRequested",
       "stillEmployed", "priorLeave", "directDeposit", "employeeContributes",
       "checkingAccount", "noEOBs" >>

CheckboxPercent ==
    << 50, 30, 20, 10, 15, 30, 10, 10, 5, 8, 5, 5, 15, 10, 90, 30, 20, 85, 10,
       70, 60, 80, 30 >>

CheckboxNames == {CheckboxOrder[i] : i \in 1..Len(CheckboxOrder)}

IndexOf(seq, x) == CHOOSE i \in 1..Len(seq) : seq[i] = x

\* Math.round(n / d * 100) / 100 for an amount of n/d cents, n >= 0: the
\* nearest cent, a half rounded up.
MathRoundDiv(n, d) == ((2 * n) + d) \div (2 * d)

\* faker.date.birthdate({min, max, mode: 'age'}) with the reference date now:
\* a day between now - (max + 1) years and now - min years.
Birthdate(raw, now, minAge, maxAge) ==
    (now - (minAge * YearDays)) - (raw % (((maxAge + 1 - minAge) * YearDays) + 1))

\* faker.date.recent({days}): a day between now - days and now.
RecentDate(raw, now, days) == now - (raw % (days + 1))

RECURSIVE SumGross(_, _)
SumGross(weeks, i) ==
    IF i = 0 THEN 0 ELSE weeks[i].grossAmount + SumGross(weeks, i - 1)

\* A variant that counts the weeks back from the week before the last day
\* worked.
WeeklyWagesFromWeekBefore(s0, ldw, base) ==
    [i \in 1..8 |->
        [weekNumber  |-> i,
         weekEndDate |-> ldw - (7 * i),
         daysWorked  |-> FakerInt(Raw(s0, 3 + (2 * i)), 4, 5),
         grossAmount |-> base
                           + FakerFloatCents(Raw(s0, 4 + (2 * i)), -10000, 10000)]]

\* The 8-week ledger (data-generator.js 70-85).  The draws of week i are the
\* draws 3 + 2i (days worked) and 4 + 2i (variance) of the build.
WeeklyWages(s0, ldw, base) ==
    [i \in 1..8 |->
        [weekNumber  |-> i,
         weekEndDate |-> ldw - (7 * (i - 1)),
         daysWorked  |-> FakerInt(Raw(s0, 3 + (2 * i)), 4, 5),
         grossAmount |-> base
                           + FakerFloatCents(Raw(s0, 4 + (2 * i)), -10000, 10000)]]

\* A variant that reports the base wage the ledger was drawn around.
AverageFromBaseWage(weeks, base) == base

\* averageWeeklyWage as stored (data-generator.js 87 and 197).
AverageWeeklyWage(weeks, base) ==
    MathRoundDiv(SumGross(weeks, 8), 8)

\* The checkbox states (data-generator.js 111-140): draw 32 + i is the i-th.
CheckboxStates(s0) ==
    [k \in CheckboxNames |->
        LET i == IndexOf(CheckboxOrder, k)
        IN  FakerBool(Raw(s0, 32 + i), CheckboxPercent[i])]

\* The key dates (data-generator.js 53-65).
DisabilityStartDate(s0, now) == now - FakerInt(Raw(s0, 1), 7, 21)
LastDayWorkedDayAfter(ds) == ds + 1
LastDayWorked(ds) == ds - 1
EmploymentStartDate(s0, ldw) ==
    ldw - (FakerInt(Raw(s0, 2), 1, 10) * YearDays)

\* priorBenefits (data-generator.js 213-226).
PriorBenefits(boxes, employer, from, to) ==
    [claimedFrom           |-> IF boxes.receivingWages THEN employer ELSE "",
     claimedPeriodStart    |-> IF boxes.receivingWages THEN from ELSE null,
     claimedPeriodEnd      |-> IF boxes.receivingWages THEN to ELSE null,
     priorDisabilityPaidBy |-> IF boxes.priorDisability THEN "ShelterPoint Life" ELSE "",
     priorDisabilityStart  |-> IF boxes.priorDisability THEN from ELSE null,
     priorDisabilityEnd    |-> IF boxes.priorDisability THEN to ELSE null,
     priorPFLPaidBy        |-> IF boxes.priorPFL THEN "ShelterPoint Life" ELSE "",
     priorPFLStart         |-> IF boxes.priorPFL THEN from ELSE null,
     priorPFLEnd           |-> IF boxes.priorPFL THEN to ELSE null]

\* A variant whose worked-for-wages dates are drawn whatever the checkbox says.
ConditionalDataUngated(boxes, now, from, to, rawWorked, rawType) ==
    [returnToWorkDate        |-> IF boxes.hasRecovered THEN now ELSE null,
     workedForWagesDates     |-> <<RecentDate(rawWorked, now, 7)>>,
     unemploymentExplanation |-> IF ~boxes.unemploymentBenefits
                                 THEN "Did not apply for unemployment benefits as disability began while employed."
                                 ELSE "",
     unemploymentPeriods     |-> IF boxes.unemploymentBenefits
                                 THEN <<from, to>> ELSE << >>,
     wagesContinuedType      |-> IF boxes.wagesContinued
                                 THEN ArrayElement(rawType, WagesContinuedTypes) ELSE "",
     priorDisabilityDates    |-> IF boxes.priorLeave THEN <<from, to>> ELSE << >>,
     priorPFLDates           |-> IF boxes.priorPFL THEN <<from, to>> ELSE << >>]

\* conditionalData (data-generator.js 229-242).  rawWorked and rawType are the
\* draws made when workedForWages and wagesContinued hold.
ConditionalData(boxes, now, from, to, rawWorked, rawType) ==
    [returnToWorkDate        |-> IF boxes.hasRecovered THEN now ELSE null,
     workedForWagesDates     |-> IF boxes.workedForWages
                                 THEN <<RecentDate(rawWorked, now, 7)>> ELSE << >>,
     unemploymentExplanation |-> IF ~boxes.unemploymentBenefits
                                 THEN "Did not apply for unemployment benefits as disability began while employed."
                                 ELSE "",
     unemploymentPeriods     |-> IF boxes.unemploymentBenefits
                                 THEN <<from, to>> ELSE << >>,
     wagesContinuedType      |-> IF boxes.wagesContinued
                                 THEN ArrayElement(rawType, WagesContinuedTypes) ELSE "",
     priorDisabilityDates    |-> IF boxes.priorLeave THEN <<from, to>> ELSE << >>,
     priorPFLDates           |-> IF boxes.priorPFL THEN <<from, to>> ELSE << >>]

\* data.aiContent before any AI content is added.
EmptyContent == [c \in {} |-> ""]

\* generateBaseData: the dataset built from the stream state s0 (the state
\* after faker.seed) at the clock reading now.  The draws for the address,
\* city, zip and e-mail fields are consumed and their values not carried.
generateBaseData(runId, seed, s0, now) ==
    LET disabilityStartDate == DisabilityStartDate(s0, now)
        lastDayWorked       == LastDayWorked(disabilityStartDate)
        employmentStartDate == EmploymentStartDate(s0, lastDayWorked)
        dateOfBirth         == Birthdate(Raw(s0, 3), now, 25, 60)
        baseWeeklyWage      == FakerFloatCents(Raw(s0, 4), 80000, 250000)
        weeklyWages         == WeeklyWages(s0, lastDayWorked, baseWeeklyWage)
        disabilityIndex     == FakerInt(Raw(s0, 21), 0, Len(SampleDisabilityDescriptions) - 1)
        description         == SampleDisabilityDescriptions[disabilityIndex + 1]
        firstName           == ArrayElement(Raw(s0, 22), FirstNames)
        lastName            == ArrayElement(Raw(s0, 23), LastNames)
        middleInitial       == ArrayElement(Raw(s0, 24), Letters)
        employerName        == ArrayElement(Raw(s0, 25), CompanyNames)
        employerContactName == <<ArrayElement(Raw(s0, 26), FirstNames),
                                 ArrayElement(Raw(s0, 26) \div 4, LastNames)>>
        employerContactTitle == ArrayElement(Raw(s0, 27), JobTitles)
        employerPhone       == Raw(s0, 28)
        ssn1                == Raw(s0, 30) % 1000
        ssn2                == Raw(s0, 31) % 100
        ssn3                == Raw(s0, 32) % 10000
        cb                  == CheckboxStates(s0)
        pbStart             == disabilityStartDate
                                 - (FakerInt(Raw(s0, 56), 6, 10) * MonthDays)
        pbEnd               == pbStart + FakerInt(Raw(s0, 57), 14, 60)
        u                   == IF cb.unionMember THEN 2 ELSE 0
        w                   == IF cb.workedForWages THEN 1 ELSE 0
    IN  [runId       |-> runId,
         generatedAt |-> now,
         seed        |-> seed,
         claimant    |-> [firstName     |-> firstName,
                          lastName      |-> lastName,
                          middleInitial |-> middleInitial,
                          fullName      |-> <<firstName, middleInitial, lastName>>,
                          phone         |-> Raw(s0, 61),
                          ssn           |-> [part1 |-> ssn1, part2 |-> ssn2,
                                             part3 |-> ssn3,
                                             full  |-> <<ssn1, ssn2, ssn3>>],
                          dateOfBirth   |-> dateOfBirth,
                          occupation    |-> ArrayElement(Raw(s0, 63), JobTitles)],
         dates       |-> [disabilityStart |-> disabilityStartDate,
                          lastDayWorked   |-> lastDayWorked,
                          employmentStart |-> employmentStartDate,
                          signatureDate   |-> now],
         employer    |-> [name         |-> employerName,
                          phone        |-> employerPhone,
                          fein         |-> [part1 |-> Raw(s0, 67) % 100,
                                            part2 |-> Raw(s0, 68) % 10000],
                          contactName  |-> employerContactName,
                          contactTitle |-> employerContactTitle,
                          contactPhone |-> employerPhone,
                          policyNumber |-> Raw(s0, 69)],
         wages       |-> [weeklyWages       |-> weeklyWages,
                          averageWeeklyWage |-> AverageWeeklyWage(weeklyWages, baseWeeklyWage),
                          baseWeeklyWage    |-> baseWeeklyWage],
         union       |-> IF cb.unionMember
                         THEN <<FakerInt(Raw(s0, 70), 1, 999),
                                ArrayElement(Raw(s0, 71), BuzzNouns)>>
                         ELSE << >>,
         disability  |-> [description1 |-> description.line1,
                          description2 |-> description.line2],
         priorBenefits   |-> PriorBenefits(cb, employerName, pbStart, pbEnd),
         conditionalData |-> ConditionalData(cb, now, pbStart, pbEnd,
                                             Raw(s0, 70 + u), Raw(s0, 70 + u + w)),
         checkboxes  |-> cb,
         aiContent   |-> EmptyContent]

\* The number of draws one build consumes.
BuildDraws(boxes) ==
    69 + (IF boxes.unionMember THEN 2 ELSE 0) + (IF boxes.workedForWages THEN 1 ELSE 0)
       + (IF boxes.wagesContinued THEN 1 ELSE 0)

(***************************************************************************)
(* State.                                                                  *)
(***************************************************************************)
(***************************************************************************)
(* Checkbox fields of the form document (fill-form.js).  A field is a      *)
(* record: on[i] is the sequence of non-Off keys of widget i's normal      *)
(* appearance dictionary, as[i] the widget's appearance state, v the       *)
(* field value.  JavaScript values applied to a field are written as       *)
(* strings: "true", "false" and "null" stand for the two booleans and for  *)
(* null/undefined, every other string is that string.                      *)
(***************************************************************************)
OnNames == {"Yes", "No", "Received"}
Off == "Off"
JsValues == {"true", "false", "null", "", "Yes", "No", "Received", "Claimed"}
IsJsString(val) == val \notin {"true", "false", "null"}
Truthy(val) == val \notin {"false", "null", ""}

\* getCheckboxOnValues: one {widget, value} entry for every non-Off key,
\* widget by widget.
RECURSIVE OnValuesFrom(_, _)
OnValuesFrom(layout, i) ==
    IF i > Len(layout) THEN << >>
    ELSE [k \in 1..Len(layout[i]) |-> [widget |-> i, value |-> layout[i][k]]]
             \o OnValuesFrom(layout, i + 1)

getCheckboxOnValues(fld) == OnValuesFrom(fld.on, 1)

isYesNoCheckbox(ovs) ==
    /\ \E k \in 1..Len(ovs) : ovs[k].value = "Yes"
    /\ \E k \in 1..Len(ovs) : ovs[k].value = "No"

isMultiWidgetCheckbox(ovs) == Len(ovs) > 1

\* onValues.find(v => v.widget === i): the first entry of widget i, or none.
HasOnValue(ovs, i) == \E k \in 1..Len(ovs) : ovs[k].widget = i
FindOnValue(ovs, i) ==
    ovs[CHOOSE k \in 1..Len(ovs) :
            /\ ovs[k].widget = i
            /\ \A j \in 1..(k - 1) : ovs[j].widget # i].value

\* A selection that switches the matching widgets on and leaves every other
\* widget as it was.
setMultiWidgetKeepOthers(fld, tgt, ovs) ==
    [fld EXCEPT !.v = tgt,
                !.as = [i \in 1..Len(fld.as) |->
                           IF HasOnValue(ovs, i) /\ FindOnValue(ovs, i) = tgt
                           THEN tgt ELSE fld.as[i]]]

setMultiWidgetCheckboxValue(fld, tgt, ovs) ==
    [fld EXCEPT !.v = tgt,
                !.as = [i \in 1..Len(fld.as) |->
                           IF HasOnValue(ovs, i) /\ FindOnValue(ovs, i) = tgt
                           THEN tgt ELSE Off]]

\* pdf-lib: the on value of a widget is the first non-Off key of its normal
\* appearance; the on value of the field is that of its first widget, and
\* "Yes" when there is none.
WidgetOnValue(keys) == IF keys = << >> THEN "" ELSE keys[1]
FieldOnValue(fld) ==
    IF Len(fld.on) = 0 \/ fld.on[1] = << >> THEN "Yes" ELSE fld.on[1][1]

\* checkBox.check(): V is the field's on value, every widget whose on value
\* it is shows it, every other widget shows Off.
check(fld) ==
    [fld EXCEPT !.v = FieldOnValue(fld),
                !.as = [i \in 1..Len(fld.as) |->
                           IF WidgetOnValue(fld.on[i]) = FieldOnValue(fld)
                           THEN FieldOnValue(fld) ELSE Off]]

\* checkBox.uncheck(): V and every widget's appearance state are Off.
uncheck(fld) ==
    [fld EXCEPT !.v = Off, !.as = [i \in 1..Len(fld.as) |-> Off]]

\* The PDFCheckBox branch of fillForm's field loop: the field afterwards and
\* the value recorded in filledFields ("" when nothing was recorded).
ApplyCheckbox(fld, mtype, val) ==
    LET onValues == getCheckboxOnValues(fld) IN
    IF mtype = "checkbox-multi"
    THEN IF Truthy(val)
         THEN [field |-> setMultiWidgetCheckboxValue(fld, val, onValues),
               filled |-> val, kind |-> "checkbox-multi"]
         ELSE [field |-> fld, filled |-> "", kind |-> "none"]
    ELSE IF isYesNoCheckbox(onValues)
    THEN [field |-> setMultiWidgetCheckboxValue(
                        fld, IF Truthy(val) THEN "Yes" ELSE "No", onValues),
          filled |-> IF Truthy(val) THEN "Yes" ELSE "No",
          kind |-> "checkbox-yesno"]
    ELSE IF isMultiWidgetCheckbox(onValues)
    THEN IF val = "true" /\ Len(onValues) > 0
         THEN [field |-> setMultiWidgetCheckboxValue(
                             fld, onValues[1].value, onValues),
               filled |-> onValues[1].value, kind |-> "checkbox-multi"]
         ELSE IF IsJsString(val)
         THEN [field |-> setMultiWidgetCheckboxValue(fld, val, onValues),
               filled |-> val, kind |-> "checkbox-multi"]
         ELSE [field |-> uncheck(fld), filled |-> "unchecked",
               kind |-> "checkbox"]
    ELSE [field |-> IF val = "true" THEN check(fld) ELSE uncheck(fld),
          filled |-> IF Truthy(val) THEN "checked" ELSE "unchecked",
          kind |-> "checkbox"]

\* The on-states of a field that are active: the reported names that some
\* widget currently shows.
ReportedOnStates(fld) ==
    UNION {{fld.on[i][k] : k \in 1..Len(fld.on[i])} : i \in 1..Len(fld.on)}
ActiveOnStates(fld) ==
    {n \in ReportedOnStates(fld) : \E i \in 1..Len(fld.as) : fld.as[i] = n}

\* The checkbox fields a form document can hold: up to MaxWidgets widgets,
\* each with no on key, one, or one of three pairs, each showing Off or one of its own keys.
\* The field value V is Off before the run; no branch reads it.
KeyLists ==
    {<< >>} \cup {<<a>> : a \in OnNames}
            \cup {<<"Yes", "No">>, <<"No", "Received">>, <<"Received", "Yes">>}
KeysOf(keys) == {keys[k] : k \in 1..Len(keys)}
WidgetStates ==
    {ws \in [keys : KeyLists, shown : OnNames \cup {Off}] :
        ws.shown \in KeysOf(ws.keys) \cup {Off}}
FieldOf(widgets) ==
    [on |-> [i \in 1..Len(widgets) |-> widgets[i].keys],
     as |-> [i \in 1..Len(widgets) |-> widgets[i].shown],
     v |-> Off]
CheckboxFields ==
    UNION {{FieldOf(widgets) : widgets \in [1..n -> WidgetStates]} :
              n \in 1..MaxWidgets}

\* The values a mapping of each type can hand to a checkbox field:
\* getCheckboxValue returns a boolean, the multi-option rules return a label
\* or null, a static mapping holds any value.
MappingTypes == {"checkbox", "checkbox-multi", "static"}
ValuesOfType(mtype) ==
    IF mtype = "checkbox" THEN {"true", "false"}
    ELSE IF mtype = "checkbox-multi" THEN JsValues \ {"true", "false"}
    ELSE JsValues


(***************************************************************************)
(* The dataset store and the generator (data-generator.js).  A data file   *)
(* is NoFile or <<record>>: JSON.stringify and JSON.parse are inverse on   *)
(* a dataset, which holds strings, numbers, booleans, null, arrays and     *)
(* objects only, so the file is written as the record it parses to.        *)
(***************************************************************************)
DebugId == <<100, 101, 98, 117, 103, 45, 103, 101, 110, 100, 101, 114>>
BatchId == <<98, 97, 116, 99, 104, 45, 48, 48, 51>>
RunIds == {DebugId, BatchId}

\* The run ids of a batch (batch-fill.js 148): the prefix, a hyphen and the
\* index padded to three digits.
BatchPrefix == <<98, 97, 116, 99, 104>>
PadStart3(n) ==
    IF n < 10 THEN <<48, 48, 48 + n>>
    ELSE IF n < 100 THEN <<48, 48 + (n \div 10), 48 + (n % 10)>>
    ELSE IF n < 1000
    THEN <<48 + (n \div 100), 48 + ((n \div 10) % 10), 48 + (n % 10)>>
    ELSE <<48 + (n \div 1000), 48 + ((n \div 100) % 10),
           48 + ((n \div 10) % 10), 48 + (n % 10)>>
RunIdOf(prefix, n) == prefix \o <<45>> \o PadStart3(n)
BatchIds == {RunIdOf(BatchPrefix, n) : n \in 1..MaxRuns}
AllRunIds == RunIds \cup BatchIds
NoFile == << >>

Categories == {"disability_description", "disability_description_continued"}

\* saveData: the data file of the run id is rewritten from the in-memory data.
saveData(files, id, mem) == [files EXCEPT ![id] = <<mem>>]

\* faker.seed(this.seed) followed by generateBaseData(), for every run id
\* and every day the clock can show.
AllDays == StartDay..(StartDay + MaxTicks + MaxScriptTicks)
SeedOf == [id \in AllRunIds |-> hashString(id)]
SeededBuild ==
    [id \in AllRunIds, day \in AllDays |->
        generateBaseData(id, SeedOf[id], SeedState(SeedOf[id]), day)]

\* A constructor that draws the build from wherever the shared stream
\* stands, without seeding it.
ConstructUnseeded(id, files, stream, clk) ==
    IF files[id] # NoFile
    THEN [data |-> files[id][1], files |-> files, rng |-> stream,
          built |-> << >>]
    ELSE LET made == generateBaseData(id, SeedOf[id], stream, clk) IN
         [data  |-> made,
          files |-> saveData(files, id, made),
          rng   |-> After(stream, BuildDraws(made.checkboxes)),
          built |-> <<made>>]

\* A constructor that builds and persists whether or not a data file exists.
ConstructRebuilding(id, files, stream, clk) ==
    LET remade == SeededBuild[id, clk] IN
    [data  |-> remade,
     files |-> saveData(files, id, remade),
     rng   |-> After(SeedState(SeedOf[id]), BuildDraws(remade.checkboxes)),
     built |-> <<remade>>]

\* new DataGenerator(runId) (data-generator.js 12-38): the in-memory data,
\* the data files, the shared faker stream afterwards, and the dataset built
\* (<< >> on a cache hit).
Construct(id, files, stream, clk) ==
    IF files[id] # NoFile
    THEN [data |-> files[id][1], files |-> files, rng |-> stream,
          built |-> << >>]
    ELSE LET fresh == SeededBuild[id, clk] IN
         [data  |-> fresh,
          files |-> saveData(files, id, fresh),
          rng   |-> After(SeedState(SeedOf[id]), BuildDraws(fresh.checkboxes)),
          built |-> <<fresh>>]

\* getAIValue (data-generator.js 455-482).
\* this.data.aiContent[category], undefined read as the empty string.
CachedContent(mem, cat) ==
    IF cat \in DOMAIN mem.aiContent THEN mem.aiContent[cat] ELSE ""
\* if (this.data.aiContent[category]): a truthiness test.
HasCachedContent(mem, cat) == CachedContent(mem, cat) # ""

\* A store that writes the content over the static description.
StoreContentOverDescription(mem, cat, content) ==
    [mem EXCEPT !.disability.description1 = content]

\* this.data.aiContent[category] = content.
StoreContent(mem, cat, content) ==
    [mem EXCEPT !.aiContent =
        [c \in (DOMAIN mem.aiContent) \cup {cat} |->
            IF c = cat THEN content ELSE mem.aiContent[c]]]

\* A fallback that prefers stored AI content to the static description.
FallbackStoredFirst(mem, cat) ==
    IF HasCachedContent(mem, cat) THEN CachedContent(mem, cat)
    ELSE IF cat = "disability_description" THEN mem.disability.description1
    ELSE IF cat = "disability_description_continued"
    THEN mem.disability.description2
    ELSE ""

\* The fallback of getAIValue when AI is off or there is no callback.
FallbackDescription(mem, cat) ==
    IF cat = "disability_description" THEN mem.disability.description1
    ELSE IF cat = "disability_description_continued"
    THEN mem.disability.description2
    ELSE ""

\* What the backend does with one request: it fails, or answers a text.
BackendOutcomes == {"error", "AI text"}
\* createAICallback: the provider's text, the empty string when it throws.
createAICallback(outcome) == IF outcome = "error" THEN "" ELSE outcome

(***************************************************************************)
(* The form document and its field mappings (field-mapping.js).  A         *)
(* document is the sequence of its field names, in the order getFields     *)
(* returns them; a form holds one string per field, "" while nothing has   *)
(* been written: the text of a text field, the value V of a checkbox.      *)
(***************************************************************************)
FormFields ==
    << "6 - State",
       "2 - Last Name",
       "20 - Describe your disability 1",
       "21 - Describe your disability 2",
       "Signature of claimant" >>

\* A document with one field for every way a value that does not come from
\* the backend is resolved.  Its last four mapped names stand for entries a
\* maintainer adds to the catalogue without touching the generator: a
\* checkbox the generator's table does not list, a rule and a method it does
\* not know, and a checkbox fed by a rule it does not know (as the
\* catalogue feeds '11 - Is the employee a member of a union?' by the rule
\* unionMemberCheckbox).
CatalogueFields ==
    << "6 - State",
       "41 - Firm or Trade Name",
       "2 - Last Name",
       "13 - Social Security",
       "39 - Last Day Worked",
       "30 - date you were able to return to work",
       "27 - Have you recovered from this disability?",
       "9 - If yes is checked",
       "Signature of claimant",
       "90 - Unlisted checkbox",
       "91 - Unlisted rule",
       "92 - Unlisted method",
       "93 - Unlisted rule checkbox" >>

\* The names of the fields of the two 8-week wage breakdowns
\* (field-mapping.js 93-116 and 218-241).
Weeks == 1..8
PartAWeekEnd(week) == ToString(44 + (3 * week)) \o " - Last Day Worked"
PartADays(week) ==
    IF week = 6 THEN "63- No of Days Worked"
    ELSE ToString(45 + (3 * week)) \o " - No of Days Worked"
PartAGross(week) == ToString(46 + (3 * week)) \o " - Gross Amount Paid"
PartCWeekEnd(week) == ToString(19 + (3 * week)) \o " - Week ending date"
PartCDays(week) == ToString(20 + (3 * week)) \o " - No of days worked"
PartCGross(week) == ToString(21 + (3 * week)) \o " - Gross amount paid"
PartAWageFields ==
    [k \in 1..24 |->
        IF (k - 1) % 3 = 0 THEN PartAWeekEnd(((k - 1) \div 3) + 1)
        ELSE IF (k - 1) % 3 = 1 THEN PartADays(((k - 1) \div 3) + 1)
        ELSE PartAGross(((k - 1) \div 3) + 1)]
PartCWageFields ==
    [k \in 1..24 |->
        IF (k - 1) % 3 = 0 THEN PartCWeekEnd(((k - 1) \div 3) + 1)
        ELSE IF (k - 1) % 3 = 1 THEN PartCDays(((k - 1) \div 3) + 1)
        ELSE PartCGross(((k - 1) \div 3) + 1)]
\* args[0] of a mapping of the wage breakdowns: the number of the week.
\* '94 - Unlisted week' stands for an entry that names a week the ledger
\* does not have.
WeekArg(name) ==
    IF name = "94 - Unlisted week" THEN 9
    ELSE CHOOSE week \in Weeks :
             name \in {PartAWeekEnd(week), PartADays(week), PartAGross(week),
                       PartCWeekEnd(week), PartCDays(week), PartCGross(week)}

\* The fields of the claim form that the properties of the built dataset
\* are about, in the order of the document.
ClaimFields ==
    << "2 - Last Name", "3 - First Name", "3a - Middle Initial" >> \o
    PartAWageFields \o PartCWageFields \o
    << "47 - In the preceding 52 weeks has the employee taken leave for:",
       "48 - Disability Please provide specific dates for disability",
       "49 - PFL: Please provide specific dates for PFL",
       "94 - Unlisted week", "4 Checking account", "4 Savings account" >>

Reverse(seq) == [i \in 1..Len(seq) |-> seq[Len(seq) + 1 - i]]
Documents == {CatalogueFields, Reverse(CatalogueFields)}
NamesOf(fields) == {fields[i] : i \in 1..Len(fields)}

NoMapping == [type |-> "none", category |-> "", arg |-> ""]
\* arg: the value of a static mapping, the method of a faker mapping, the
\* generator of a calculated or checkbox-multi mapping.
FieldMappings(name) ==
    IF name = "6 - State"
    THEN [type |-> "static", category |-> "", arg |-> "NY"]
    ELSE IF name = "41 - Firm or Trade Name"
    THEN [type |-> "static", category |-> "", arg |-> ""]
    ELSE IF name = "2 - Last Name"
    THEN [type |-> "faker", category |-> "", arg |-> "person.lastName"]
    ELSE IF name = "13 - Social Security"
    THEN [type |-> "faker", category |-> "", arg |-> "string.numeric"]
    ELSE IF name = "39 - Last Day Worked"
    THEN [type |-> "calculated", category |-> "", arg |-> "lastDayWorked"]
    ELSE IF name = "30 - date you were able to return to work"
    THEN [type |-> "calculated", category |-> "", arg |-> "returnToWorkDay"]
    ELSE IF name = "27 - Have you recovered from this disability?"
    THEN [type |-> "checkbox", category |-> "", arg |-> ""]
    ELSE IF name = "9 - If yes is checked"
    THEN [type |-> "checkbox-multi", category |-> "",
          arg |-> "receivedOrClaimed"]
    ELSE IF name = "20 - Describe your disability 1"
    THEN [type |-> "ai", category |-> "disability_description", arg |-> ""]
    ELSE IF name = "21 - Describe your disability 2"
    THEN [type |-> "ai", category |-> "disability_description_continued",
          arg |-> ""]
    ELSE IF name = "47 - In the preceding 52 weeks has the employee taken leave for:"
    THEN [type |-> "checkbox-multi", category |-> "", arg |-> "priorLeaveType"]
    ELSE IF name = "48 - Disability Please provide specific dates for disability"
    THEN [type |-> "calculated", category |-> "",
          arg |-> "priorDisabilityDates"]
    ELSE IF name = "49 - PFL: Please provide specific dates for PFL"
    THEN [type |-> "calculated", category |-> "", arg |-> "priorPFLDates"]
    ELSE IF name = "90 - Unlisted checkbox"
    THEN [type |-> "checkbox", category |-> "", arg |-> ""]
    ELSE IF name = "94 - Unlisted week"
    THEN [type |-> "calculated", category |-> "", arg |-> "weekEndDate"]
    ELSE IF name = "3 - First Name"
    THEN [type |-> "faker", category |-> "", arg |-> "person.firstName"]
    ELSE IF name \in {"4 Checking account", "4 Savings account"}
    THEN [type |-> "checkbox", category |-> "", arg |-> ""]
    ELSE IF name = "3a - Middle Initial"
    THEN [type |-> "faker", category |-> "", arg |-> "string.alpha"]
    ELSE IF \E week \in Weeks : name = PartAWeekEnd(week)
    THEN [type |-> "calculated", category |-> "", arg |-> "weekEndDate"]
    ELSE IF \E week \in Weeks : name = PartADays(week)
    THEN [type |-> "faker", category |-> "", arg |-> "number.int"]
    ELSE IF \E week \in Weeks : name = PartAGross(week)
    THEN [type |-> "calculated", category |-> "", arg |-> "weeklyWage"]
    ELSE IF \E week \in Weeks : name = PartCWeekEnd(week)
    THEN [type |-> "calculated", category |-> "",
          arg |-> "weekEndDateFormatted"]
    ELSE IF \E week \in Weeks : name = PartCDays(week)
    THEN [type |-> "calculated", category |-> "", arg |-> "daysWorkedWeek"]
    ELSE IF \E week \in Weeks : name = PartCGross(week)
    THEN [type |-> "calculated", category |-> "",
          arg |-> "weeklyWageFormatted"]
    ELSE IF name = "91 - Unlisted rule"
    THEN [type |-> "calculated", category |-> "", arg |-> "unlistedRule"]
    ELSE IF name = "92 - Unlisted method"
    THEN [type |-> "faker", category |-> "", arg |-> "person.unlisted"]
    ELSE IF name = "93 - Unlisted rule checkbox"
    THEN [type |-> "calculated", category |-> "", arg |-> "unlistedRule"]
    ELSE NoMapping

\* The checkbox fields of the documents and the on keys of their widgets;
\* every other field is a text field.
CheckboxLayout(name) ==
    IF name = "27 - Have you recovered from this disability?"
    THEN << <<"Yes">>, <<"No">> >>
    ELSE IF name = "9 - If yes is checked"
    THEN << <<"Received">>, <<"Claimed">> >>
    ELSE IF name = "93 - Unlisted rule checkbox"
    THEN << <<"Yes">>, <<"No">> >>
    ELSE IF name = "47 - In the preceding 52 weeks has the employee taken leave for:"
    THEN << <<"NYS#20Disability">>, <<"PFL">>, <<"Both">>, <<"None">> >>
    ELSE << <<"Yes">> >>
IsCheckBox(name) ==
    name \in {"27 - Have you recovered from this disability?",
              "9 - If yes is checked", "90 - Unlisted checkbox",
              "93 - Unlisted rule checkbox",
              "47 - In the preceding 52 weeks has the employee taken leave for:",
              "4 Checking account", "4 Savings account"}
CheckBoxOf(name) ==
    [on |-> CheckboxLayout(name),
     as |-> [i \in 1..Len(CheckboxLayout(name)) |-> Off],
     v  |-> Off]

\* The longest text a text field of the documents accepts (0: any length);
\* setText throws on a longer one.
MaxLengthOf(name) == IF name = "13 - Social Security" THEN 3 ELSE 0
SetTextThrows(name, content) ==
    MaxLengthOf(name) > 0 /\ Len(content) > MaxLengthOf(name)

BlankFormOf(fields) == [n \in NamesOf(fields) |-> ""]
BlankForm == BlankFormOf(FormFields)

\* The PDFTextField branch of the field loop: a value other than undefined,
\* null and '' is written and recorded.
SetText(frm, name, content) ==
    IF content = "" THEN frm ELSE [frm EXCEPT ![name] = content]
PushFilled(done, name, content) ==
    IF content = "" THEN done ELSE Append(done, name)

\* formatDate: the month, the day of the month and the year of a day
\* number, the first two padded to two digits.
PadStart2(n) == IF n < 10 THEN "0" \o ToString(n) ELSE ToString(n)
formatDate(d) ==
    LET mm == PadStart2(((d % YearDays) \div MonthDays) + 1)
        dd == PadStart2(((d % YearDays) % MonthDays) + 1)
        yyyy == ToString(1970 + (d \div YearDays))
    IN  [month |-> mm, day |-> dd, year |-> yyyy,
         full |-> mm \o "/" \o dd \o "/" \o yyyy]

\* Date.toLocaleDateString('en-US'): month/day/year without padding.
toLocaleDateString(d) ==
    ToString(((d % YearDays) \div MonthDays) + 1) \o "/"
        \o ToString(((d % YearDays) % MonthDays) + 1) \o "/"
        \o ToString(1970 + (d \div YearDays))
\* The text of a period as generateBaseData writes it, '' for no period.
PeriodText(period) ==
    IF period = << >> THEN ""
    ELSE toLocaleDateString(period[1]) \o " - "
             \o toLocaleDateString(period[2])

\* Number.toFixed(2) of an amount held in cents.
toFixed2(cents) ==
    ToString(cents \div 100) \o "." \o PadStart2(cents % 100)

\* faker.string.numeric(n): n digits, one draw each.
RECURSIVE StringNumeric(_, _)
StringNumeric(s0, n) ==
    IF n = 0 THEN ""
    ELSE StringNumeric(s0, n - 1) \o ToString(Raw(s0, n) % 10)

(***************************************************************************)
(* Value resolution (data-generator.js 264-534).  The generator draws      *)
(* from the process-wide faker stream; faker.seed(n) replaces the state of *)
(* that stream, whatever it was.                                           *)
(***************************************************************************)
\* A faker.seed call that leaves the stream where it is.
KeepStream(stream, n) == stream

Reseed(stream, n) == SeedState(n)

\* getFakerValue(method): the stream is re-seeded with the dataset's seed
\* and the method draws from it; an unknown method gives ''.
FakerDraws(method) ==
    IF method = "person.lastName" THEN 1
    ELSE IF method = "string.numeric" THEN 4
    ELSE IF method \in {"number.int", "person.firstName", "string.alpha"}
    THEN 1
    ELSE 0
getFakerValue(method, seed, stream) ==
    LET seeded == Reseed(stream, seed) IN
    IF method = "person.lastName"
    THEN ArrayElement(Raw(seeded, 1), LastNames)
    ELSE IF method = "string.numeric"
    THEN StringNumeric(seeded, 4)
    ELSE IF method = "number.int"
    THEN ToString(FakerInt(Raw(seeded, 1), 4, 5))
    ELSE IF method = "person.firstName"
    THEN ArrayElement(Raw(seeded, 1), FirstNames)
    ELSE IF method = "string.alpha"
    THEN ArrayElement(Raw(seeded, 1), Letters)
    ELSE ""
StreamAfterFakerValue(method, seed, stream) ==
    After(Reseed(stream, seed), FakerDraws(method))

\* getCalculatedValue(generator): the rules of the documents' fields; a
\* generator the table does not hold gives ''.
AnyBenefitsChecked(boxes) ==
    \/ boxes.receivingWages
    \/ boxes.unemploymentBenefits
    \/ boxes.paidFamilyLeave
    \/ boxes.workersComp
    \/ boxes.noFaultAccident
    \/ boxes.thirdPartyInjury
    \/ boxes.longTermDisability
getCalculatedValue(generator, mem, clk, stream) ==
    IF generator = "lastDayWorked"
    THEN formatDate(mem.dates.lastDayWorked).full
    ELSE IF generator = "returnToWorkDay"
    THEN IF mem.checkboxes.hasRecovered THEN formatDate(clk).day ELSE ""
    ELSE IF generator = "receivedOrClaimed"
    THEN IF ~AnyBenefitsChecked(mem.checkboxes) THEN "null"
         ELSE IF FakerBool(Raw(Reseed(stream, mem.seed + 99999), 1), 50)
         THEN "Received" ELSE "Claimed"
    ELSE IF generator = "priorLeaveType"
    THEN IF mem.checkboxes.priorDisability /\ mem.checkboxes.priorPFL
         THEN "Both"
         ELSE IF mem.checkboxes.priorDisability THEN "NYS#20Disability"
         ELSE IF mem.checkboxes.priorPFL THEN "PFL"
         ELSE "None"
    ELSE IF generator = "priorDisabilityDates"
    THEN PeriodText(mem.conditionalData.priorDisabilityDates)
    ELSE IF generator = "priorPFLDates"
    THEN PeriodText(mem.conditionalData.priorPFLDates)
    ELSE ""
StreamAfterCalculatedValue(generator, mem, stream) ==
    IF generator = "receivedOrClaimed" /\ AnyBenefitsChecked(mem.checkboxes)
    THEN After(Reseed(stream, mem.seed + 99999), 1)
    ELSE stream

\* The rules of getCalculatedValue that take the number of a week
\* (data-generator.js 290-314): the record of the ledger with that
\* weekNumber is looked up; '' when there is none.
WeekRules ==
    {"weekEndDate", "weekEndDateFormatted", "daysWorkedWeek", "weeklyWage",
     "weeklyWageFormatted"}
getWeekValue(generator, weekNum, mem) ==
    LET ledger == mem.wages.weeklyWages
        hits == {k \in 1..Len(ledger) : ledger[k].weekNumber = weekNum}
    IN  IF hits = {} THEN ""
        ELSE LET found == ledger[CHOOSE k \in hits : \A j \in hits : k <= j]
             IN  IF generator \in {"weekEndDate", "weekEndDateFormatted"}
                 THEN formatDate(found.weekEndDate).full
                 ELSE IF generator = "daysWorkedWeek"
                 THEN ToString(found.daysWorked)
                 ELSE toFixed2(found.grossAmount)

\* getCheckboxValue(fieldName, probability): the stored state of the
\* checkbox the table names for the field; for a field the table does not
\* list, a draw from the stream seeded with seed + hashString(fieldName).
UnlistedCheckboxName == <<57, 48, 32, 45, 32, 85, 110, 108, 105, 115, 116, 101, 100, 32, 99, 104, 101, 99, 107, 98, 111, 120>>
UnlistedCheckboxHash == hashString(UnlistedCheckboxName)
UnlistedCheckboxPercent == 50
IsListedCheckbox(name) ==
    name \in {"27 - Have you recovered from this disability?",
              "4 Checking account", "4 Savings account"}
\* mapping.probability, in percent (field-mapping.js 283-284).
ProbabilityOf(name) ==
    IF name = "4 Checking account" THEN 80
    ELSE IF name = "4 Savings account" THEN 20
    ELSE UnlistedCheckboxPercent
\* A variant in which the table does not list the savings account, so its
\* value is drawn with the declared probability.
SavingsAccountName == <<52, 32, 83, 97, 118, 105, 110, 103, 115, 32, 97, 99, 99, 111, 117, 110, 116>>
getCheckboxValueSavingsDrawn(name, probability, mem, stream) ==
    IF name = "4 Checking account"
    THEN IF mem.checkboxes.checkingAccount THEN "true" ELSE "false"
    ELSE IF name = "4 Savings account"
    THEN IF FakerBool(Raw(Reseed(stream,
                                 mem.seed + hashString(SavingsAccountName)), 1),
                      probability)
         THEN "true" ELSE "false"
    ELSE IF IsListedCheckbox(name)
    THEN IF mem.checkboxes.hasRecovered THEN "true" ELSE "false"
    ELSE IF FakerBool(Raw(Reseed(stream, mem.seed + UnlistedCheckboxHash), 1),
                      probability)
    THEN "true" ELSE "false"
getCheckboxValue(name, probability, mem, stream) ==
    IF name = "4 Checking account"
    THEN IF mem.checkboxes.checkingAccount THEN "true" ELSE "false"
    ELSE IF name = "4 Savings account"
    THEN IF ~mem.checkboxes.checkingAccount THEN "true" ELSE "false"
    ELSE IF IsListedCheckbox(name)
    THEN IF mem.checkboxes.hasRecovered THEN "true" ELSE "false"
    ELSE IF FakerBool(Raw(Reseed(stream, mem.seed + UnlistedCheckboxHash), 1),
                      probability)
    THEN "true" ELSE "false"
StreamAfterCheckboxValue(name, mem, stream) ==
    IF IsListedCheckbox(name) THEN stream
    ELSE After(Reseed(stream, mem.seed + UnlistedCheckboxHash), 1)

\* The switch on mapping.type in the field loop (fill-form.js 207-236), the
\* backend's type apart: the value handed to the field and the stream
\* afterwards.
ResolveValue(name, mapping, mem, clk, stream) ==
    IF mapping.type = "static"
    THEN [value |-> mapping.arg, rng |-> stream]
    ELSE IF mapping.type = "faker"
    THEN [value |-> getFakerValue(mapping.arg, mem.seed, stream),
          rng   |-> StreamAfterFakerValue(mapping.arg, mem.seed, stream)]
    ELSE IF mapping.type = "checkbox"
    THEN [value |-> getCheckboxValue(name, ProbabilityOf(name), mem,
                                     stream),
          rng   |-> StreamAfterCheckboxValue(name, mem, stream)]
    ELSE IF mapping.arg \in WeekRules
    THEN [value |-> getWeekValue(mapping.arg, WeekArg(name), mem),
          rng   |-> stream]
    ELSE [value |-> getCalculatedValue(mapping.arg, mem, clk, stream),
          rng   |-> StreamAfterCalculatedValue(mapping.arg, mem, stream)]

\* An unmapped field recorded among the errors.
SkipAsError(r, name) ==
    [r EXCEPT !.errors = Append(@, name), !.next = @ + 1]

\* A field without a mapping (fill-form.js 199-202): it is pushed to
\* skippedFields and the loop continues with the next field.
SkipUnmapped(r, name) ==
    [r EXCEPT !.skipped = Append(@, [name |-> name,
                                     reason |-> "No mapping defined"]),
              !.next = @ + 1]

\* A field loop whose catch block records nothing.
ApplyValueUnrecorded(name, mtype, val) ==
    IF IsCheckBox(name)
    THEN LET res == ApplyCheckbox(CheckBoxOf(name), mtype, val) IN
         [wrote  |-> IF res.kind = "none" THEN "" ELSE res.field.v,
          filled |-> res.kind # "none",
          threw  |-> FALSE]
    ELSE IF val \in {"", "null"} \/ SetTextThrows(name, val)
    THEN [wrote |-> "", filled |-> FALSE, threw |-> FALSE]
    ELSE [wrote |-> val, filled |-> TRUE, threw |-> FALSE]

\* The branches that apply a value to a field (fill-form.js 238-296): what
\* is written to the form (wrote), the entry pushed to filledFields
\* (filled) and whether the field's setter threw.
ApplyValue(name, mtype, val) ==
    IF IsCheckBox(name)
    THEN LET res == ApplyCheckbox(CheckBoxOf(name), mtype, val) IN
         [wrote  |-> IF res.kind = "none" THEN "" ELSE res.field.v,
          filled |-> res.kind # "none",
          threw  |-> FALSE]
    ELSE IF val \in {"", "null"}
    THEN [wrote |-> "", filled |-> FALSE, threw |-> FALSE]
    ELSE IF SetTextThrows(name, val)
    THEN [wrote |-> "", filled |-> FALSE, threw |-> TRUE]
    ELSE [wrote |-> val, filled |-> TRUE, threw |-> FALSE]

(***************************************************************************)
(* Part B (fill-form.js 303-422, part-b-fields.js): text drawn at fixed    *)
(* coordinates of the fifth page.                                          *)
(***************************************************************************)
MedicalDetails == [diagnosisAnalysis |-> "Acute Back Pain (Simulated)",
                   icdCode |-> "M54.5"]
\* What generateMedicalDetails resolves to: details, or details with a
\* character the standard font cannot encode; "error" when it throws.
MedicalOutcomes == {"error", "details", "unencodable details"}
Unencodable == "Lumbago (arrow glyph) sciatica"
AiDetails(outcome) ==
    IF outcome = "unencodable details"
    THEN [diagnosisAnalysis |-> Unencodable, icdCode |-> "M54.4"]
    ELSE [diagnosisAnalysis |-> "Lumbar strain", icdCode |-> "S39.012"]
\* medicalDetails = { ...medicalDetails, ...aiDetails }
MedicalDetailsWith(useMedicalAI, outcome) ==
    IF useMedicalAI /\ outcome # "error" THEN AiDetails(outcome)
    ELSE MedicalDetails
\* The details are merged into the in-memory data (fill-form.js 315-332).
MergeMedical(mem, details) == [medical |-> details] @@ mem

PartBCoordinates ==
    << "last name claimant", "Diagnosis analysis", "diagnosis code",
       "license or certified state" >>
\* The value an entry draws: the source path looked up in the context, or
\* the static value.
PartBValue(key, mem, details) ==
    IF key = "last name claimant" THEN mem.claimant.lastName
    ELSE IF key = "first name claimant" THEN mem.claimant.firstName
    ELSE IF key = "middle initial claimant" THEN mem.claimant.middleInitial
    ELSE IF key = "Diagnosis analysis" THEN details.diagnosisAnalysis
    ELSE IF key = "diagnosis code" THEN details.icdCode
    ELSE "NY"
\* drawText throws on text the embedded font cannot encode.
DrawTextThrows(content) == content = Unencodable

\* The Part B loop from entry i on: every entry draws and is recorded as
\* filled, or throws and is recorded as an error, and the loop goes on.
RECURSIVE PartBLoop(_, _, _, _, _)
PartBLoop(i, mem, details, done, errs) ==
    IF i > Len(PartBCoordinates) THEN [filled |-> done, errors |-> errs]
    ELSE LET content == PartBValue(PartBCoordinates[i], mem, details) IN
         IF content = ""
         THEN PartBLoop(i + 1, mem, details, done, errs)
         ELSE IF DrawTextThrows(content)
         THEN PartBLoop(i + 1, mem, details, done,
                        Append(errs, "Part B - " \o PartBCoordinates[i]))
         ELSE PartBLoop(i + 1, mem, details,
                        Append(done, "[Part B] " \o PartBCoordinates[i]),
                        errs)

\* The field loop of fillForm without the backend (fill-form.js 194-301):
\* the form after the fields from the i-th on have been resolved and
\* applied in order.
RECURSIVE FieldLoop(_, _, _, _, _, _)
FieldLoop(i, fields, mem, clk, stream, frm) ==
    IF i > Len(fields) THEN frm
    ELSE IF fields[i] \notin DOMAIN frm
    THEN FieldLoop(i + 1, fields, mem, clk, stream, frm)
    ELSE LET curMapping == FieldMappings(fields[i])
             resolved == ResolveValue(fields[i], curMapping, mem, clk, stream)
             applied == ApplyValue(fields[i], curMapping.type, resolved.value)
         IN  IF curMapping.type = "none"
             THEN FieldLoop(i + 1, fields, mem, clk, stream, frm)
             ELSE FieldLoop(i + 1, fields, mem, clk, resolved.rng,
                            IF applied.filled
                            THEN [frm EXCEPT ![fields[i]] = applied.wrote]
                            ELSE frm)

VARIABLES
    bSeed,      \* builder runs: the seed of the build
    bNow,       \* builder runs: the clock reading of the build
    bData,      \* builder runs: << >> before the build, <<dataset>> after
    bForm,      \* builder runs: << >>, then <<the claim form filled from
                \* the dataset>>
    wField,     \* checkbox runs: the checkbox field
    wType,      \* checkbox runs: the type of the field's mapping
    wValue,     \* checkbox runs: the value resolved for the field
    wBefore,    \* checkbox runs: << >>, then <<field before the selection>>
    wFilled,    \* checkbox runs: the entry pushed to filledFields
    clock,      \* the current day
    rng,        \* the state of the process-wide faker stream
    dataFiles,  \* generated-data/<runId>.json: NoFile or <<dataset>>
    builds,     \* per run id, the datasets the builder has produced
    firstSaved, \* per run id, the dataset as its data file was created
    run,        \* the fillForm call in progress
    outputs,    \* output/<runId>.pdf: << >> or <<fields and their values>>
    reports,    \* output/<runId>-report.json: << >> or <<report>>
    started,    \* the number of fillForm calls so far
    calls,      \* overlapping runs: the fillForm call of every caller
    provider,   \* overlapping runs: the description the provider caches,
                \* << >> or <<run id of the context it was generated for>>
    cpu,        \* overlapping runs: the call that is executing, 0 when
                \* every call is suspended at an await
    batch       \* batch runs: the batchFill call (its position, count,
                \* loop index and results)

buildVars == <<bSeed, bNow, bData, bForm>>
widgetVars == <<wField, wType, wValue, wBefore, wFilled>>
runVars ==
    <<clock, rng, dataFiles, builds, firstSaved, run, outputs, reports, started>>
callVars == <<calls, provider, cpu>>
batchVars == <<batch>>
vars == <<buildVars, widgetVars, runVars, callVars, batchVars>>

Days == StartDay..(StartDay + MaxTicks)

NoBuild == bSeed = 0 /\ bNow = StartDay /\ bData = << >> /\ bForm = << >>
NoWidget ==
    /\ wField = [on |-> << >>, as |-> << >>, v |-> Off]
    /\ wType = "checkbox"
    /\ wValue = "null"
    /\ wBefore = << >>
    /\ wFilled = [value |-> "", kind |-> "none"]

IdleRun ==
    [pc |-> "idle", runId |-> DebugId, useAI |-> FALSE, medicalAI |-> FALSE,
     preview |-> FALSE, data |-> << >>, doc |-> FormFields, next |-> 0,
     form |-> BlankForm, filled |-> << >>, skipped |-> << >>,
     errors |-> << >>, failed |-> {}]

IdleBatch ==
    [pc |-> "idle", count |-> 0, useAI |-> FALSE, i |-> 0, results |-> << >>]
NoBatch == batch = IdleBatch

Callers == {1, 2}
NoCalls ==
    /\ calls = [p \in Callers |-> IdleRun]
    /\ provider = << >>
    /\ cpu = 0

NoRun ==
    /\ clock = StartDay
    /\ rng = 1
    /\ dataFiles = [id \in RunIds |-> NoFile]
    /\ builds = [id \in RunIds |-> << >>]
    /\ firstSaved = [id \in RunIds |-> NoFile]
    /\ run = IdleRun
    /\ outputs = [id \in RunIds |-> << >>]
    /\ reports = [id \in RunIds |-> << >>]
    /\ started = 0
    /\ NoCalls
    /\ NoBatch

(***************************************************************************)
(* The builder on its own: one build for every seed and clock reading.     *)
(***************************************************************************)
InitBuild ==
    /\ bSeed \in 0..MaxSeed
    /\ bNow \in Days
    /\ bData = << >>
    /\ bForm = << >>
    /\ NoWidget
    /\ NoRun

\* new DataGenerator(runId) on a cache miss: faker.seed(seed), then
\* generateBaseData (data-generator.js 33-34).
BuildOnce ==
    /\ bData = << >>
    /\ bData' = <<generateBaseData(<< >>, bSeed, SeedState(bSeed), bNow)>>
    /\ UNCHANGED <<bSeed, bNow, bForm, widgetVars, runVars, callVars,
                   batchVars>>

\* fillForm without AI on the dataset just built, the same day: the field
\* loop over the claim form.
FillBuilt ==
    /\ bData # << >>
    /\ bForm = << >>
    /\ bForm' = <<FieldLoop(1, ClaimFields, bData[1], bNow,
                            After(SeedState(bSeed),
                                  BuildDraws(bData[1].checkboxes)),
                            BlankFormOf(ClaimFields))>>
    /\ UNCHANGED <<bSeed, bNow, bData, widgetVars, runVars, callVars,
                   batchVars>>

NextBuild == BuildOnce \/ FillBuilt

SpecBuild == InitBuild /\ [][NextBuild]_vars

(***************************************************************************)
(* The checkbox branch on its own: one field, one mapping, one value.      *)
(***************************************************************************)
InitWidget ==
    /\ NoBuild
    /\ NoRun
    /\ wField \in CheckboxFields
    /\ wType \in MappingTypes
    /\ wValue \in ValuesOfType(wType)
    /\ wBefore = << >>
    /\ wFilled = [value |-> "", kind |-> "none"]

\* One pass of the field loop over a PDFCheckBox field (fill-form.js
\* 245-283).
ApplyToCheckbox ==
    /\ wBefore = << >>
    /\ LET res == ApplyCheckbox(wField, wType, wValue) IN
         /\ wField' = res.field
         /\ wFilled' = [value |-> res.filled, kind |-> res.kind]
    /\ wBefore' = <<wField>>
    /\ UNCHANGED <<wType, wValue, buildVars, runVars, callVars,
                   batchVars>>

NextWidget == ApplyToCheckbox

SpecWidget == InitWidget /\ [][NextWidget]_vars

(***************************************************************************)
(* The program: form-filling runs, one after the other as the command line *)
(* and batch-fill.js start them, and the debug-gender script.              *)
(***************************************************************************)
RngStarts == {1, 5003}
Callbacks == {"none", "plain", "medical"}

Init ==
    /\ NoBuild
    /\ NoWidget
    /\ clock = StartDay
    /\ rng \in RngStarts
    /\ dataFiles = [id \in RunIds |-> NoFile]
    /\ builds = [id \in RunIds |-> << >>]
    /\ firstSaved = [id \in RunIds |-> NoFile]
    /\ run = IdleRun
    /\ outputs = [id \in RunIds |-> << >>]
    /\ reports = [id \in RunIds |-> << >>]
    /\ started = 0
    /\ NoCalls
    /\ NoBatch

Resting == run.pc \in {"idle", "done", "failed"}

\* The clock moves on.  Only the constructor reads it, so it is enough to
\* let it move between runs.
Tick(limit) ==
    /\ Resting
    /\ clock < StartDay + limit
    /\ clock' = clock + 1
    /\ UNCHANGED <<rng, dataFiles, builds, firstSaved, run, outputs, reports,
                   started, buildVars, widgetVars, callVars,
                   batchVars>>

\* fillForm up to its first await (fill-form.js 160-183): the generator is
\* constructed, then the input document is looked for, then it is read;
\* fields are the fields of that document.
StartRun(id, ai, callback, preview, inputExists, fields) ==
    /\ Resting
    /\ started < MaxRuns
    /\ started' = started + 1
    /\ LET gen == Construct(id, dataFiles, rng, clock) IN
         /\ dataFiles' = gen.files
         /\ rng' = gen.rng
         /\ builds' = [builds EXCEPT ![id] = @ \o gen.built]
         /\ firstSaved' = IF gen.built = << >> THEN firstSaved
                          ELSE [firstSaved EXCEPT ![id] = gen.built]
         /\ run' = IF inputExists
                    THEN [IdleRun EXCEPT
                             !.pc = "loading",
                             !.runId = id,
                             !.useAI = ai /\ callback # "none",
                             !.medicalAI = ai /\ callback = "medical",
                             !.preview = preview,
                             !.data = <<gen.data>>,
                             !.doc = fields,
                             !.form = BlankFormOf(fields)]
                    ELSE [IdleRun EXCEPT !.pc = "failed", !.runId = id]
    /\ UNCHANGED <<clock, outputs, reports, buildVars, widgetVars, callVars>>

Start(id, ai, callback, preview, inputExists, fields) ==
    /\ StartRun(id, ai, callback, preview, inputExists, fields)
    /\ UNCHANGED batchVars

\* PDFDocument.load resolves: the field loop begins at the first field.
Loaded ==
    /\ run.pc = "loading"
    /\ run' = [run EXCEPT !.pc = "fields", !.next = 1]
    /\ UNCHANGED <<clock, rng, dataFiles, builds, firstSaved, outputs,
                   reports, started, buildVars, widgetVars, callVars,
                   batchVars>>

InFieldLoop == run.pc = "fields" /\ run.next <= Len(run.doc)
CurrentField == run.doc[run.next]
CurrentMapping == FieldMappings(CurrentField)

\* A loop that moves past the field after the current one as well.
WithTextAhead(content) ==
    [run EXCEPT !.form = SetText(@, CurrentField, content),
                !.filled = PushFilled(@, CurrentField, content),
                !.next = @ + 2]

\* The text written to the current field is recorded and the loop moves on.
WithText(content) ==
    [run EXCEPT !.form = SetText(@, CurrentField, content),
                !.filled = PushFilled(@, CurrentField, content),
                !.next = @ + 1]

\* One pass of the field loop that does not wait for the backend
\* (fill-form.js 194-301): a field without a mapping is skipped; a value is
\* resolved for any other and applied to the field, and what the field's
\* setter throws is caught and recorded.
ResolveField ==
    /\ InFieldLoop
    /\ \/ /\ CurrentMapping.type = "none"
          /\ run' = SkipUnmapped(run, CurrentField)
          /\ rng' = rng
       \/ /\ CurrentMapping.type \notin {"none", "ai"}
          /\ LET res == ResolveValue(CurrentField, CurrentMapping,
                                     run.data[1], clock, rng)
                 out == ApplyValue(CurrentField, CurrentMapping.type,
                                   res.value)
             IN  /\ run' = [run EXCEPT
                               !.form = IF out.filled
                                        THEN [@ EXCEPT ![CurrentField] =
                                                           out.wrote]
                                        ELSE @,
                               !.filled = IF out.filled
                                          THEN Append(@, CurrentField)
                                          ELSE @,
                               !.errors = IF out.threw
                                          THEN Append(@, CurrentField)
                                          ELSE @,
                               !.next = @ + 1]
                 /\ rng' = res.rng
       \/ /\ CurrentMapping.type = "ai"
          /\ ~run.useAI
          /\ run' = WithText(FallbackDescription(run.data[1],
                                                 CurrentMapping.category))
          /\ rng' = rng
       \/ /\ CurrentMapping.type = "ai"
          /\ run.useAI
          /\ HasCachedContent(run.data[1], CurrentMapping.category)
          /\ run' = WithText(CachedContent(run.data[1],
                                           CurrentMapping.category))
          /\ rng' = rng
    /\ UNCHANGED <<clock, dataFiles, builds, firstSaved, outputs, reports,
                   started, buildVars, widgetVars, callVars,
                   batchVars>>

\* getAIValue finds no usable cached content and calls the backend
\* (data-generator.js 456-467).
AiRequest ==
    /\ InFieldLoop
    /\ CurrentMapping.type = "ai"
    /\ run.useAI
    /\ ~HasCachedContent(run.data[1], CurrentMapping.category)
    /\ run' = [run EXCEPT !.pc = "aiCall"]
    /\ UNCHANGED <<clock, rng, dataFiles, builds, firstSaved, outputs,
                   reports, started, buildVars, widgetVars, callVars,
                   batchVars>>

\* The callback resolves: the content is stored and saved, and written to
\* the field (data-generator.js 467-470, fill-form.js 236-243).
AiReturn(outcome) ==
    /\ run.pc = "aiCall"
    /\ LET content == createAICallback(outcome)
           stored  == StoreContent(run.data[1], CurrentMapping.category,
                                   content)
       IN  /\ dataFiles' = saveData(dataFiles, run.runId, stored)
           /\ run' = [WithText(content) EXCEPT
                         !.pc = "fields",
                         !.data = <<stored>>,
                         !.failed = IF outcome = "error"
                                    THEN @ \cup {CurrentField} ELSE @]
    /\ UNCHANGED <<clock, rng, builds, firstSaved, outputs, reports,
                   started, buildVars, widgetVars, callVars,
                   batchVars>>

\* Part B (fill-form.js 303-422): with AI and a callback that offers
\* generateMedicalDetails, the details are merged into the in-memory data
\* unless the call throws; then every entry of the coordinate table is
\* drawn.
PartB(outcome) ==
    /\ run.pc = "fields"
    /\ run.next > Len(run.doc)
    /\ LET details == MedicalDetailsWith(run.medicalAI, outcome)
           drawn   == PartBLoop(1, run.data[1], details, run.filled,
                                run.errors)
       IN  run' = [run EXCEPT
                      !.pc = "finishing",
                      !.data = IF run.medicalAI /\ outcome # "error"
                               THEN <<MergeMedical(run.data[1], details)>>
                               ELSE @,
                      !.filled = drawn.filled,
                      !.errors = drawn.errors]
    /\ UNCHANGED <<clock, rng, dataFiles, builds, firstSaved, outputs,
                   reports, started, buildVars, widgetVars, callVars,
                   batchVars>>

\* A report that counts no errors.
ReportWithoutErrors(r) ==
    [filledFields  |-> Len(r.filled),
     skippedFields |-> Len(r.skipped),
     errors        |-> 0]

\* The counts of the report (fill-form.js 481-490), the same numbers as in
\* the logged summary (473-476).
Report(r) ==
    [filledFields  |-> Len(r.filled),
     skippedFields |-> Len(r.skipped),
     errors        |-> Len(r.errors)]

\* The end of fillForm (fill-form.js 424-494): a preview returns, any other
\* run writes the output document and the report.
Finish ==
    /\ run.pc = "finishing"
    /\ run' = [IdleRun EXCEPT !.pc = "done", !.runId = run.runId,
                               !.filled = run.filled,
                               !.skipped = run.skipped,
                               !.errors = run.errors]
    /\ IF run.preview
       THEN UNCHANGED <<outputs, reports>>
       ELSE /\ outputs' = [outputs EXCEPT ![run.runId] =
                              <<[doc |-> run.doc, form |-> run.form]>>]
            /\ reports' = [reports EXCEPT ![run.runId] = <<Report(run)>>]
    /\ UNCHANGED <<clock, rng, dataFiles, builds, firstSaved, started,
                   buildVars, widgetVars, callVars,
                   batchVars>>

\* The debug-gender script (a program of its own, with its own faker
\* stream): it removes the data file of 'debug-gender' and constructs a
\* generator, which builds and persists the dataset afresh.
DebugGender(stream) ==
    /\ Resting
    /\ Len(builds[DebugId]) < MaxBuilds
    /\ LET gen == Construct(DebugId, [dataFiles EXCEPT ![DebugId] = NoFile],
                            stream, clock) IN
         /\ dataFiles' = gen.files
         /\ builds' = [builds EXCEPT ![DebugId] = @ \o gen.built]
         /\ firstSaved' = [firstSaved EXCEPT ![DebugId] = gen.built]
    /\ UNCHANGED <<clock, rng, run, outputs, reports, started, buildVars,
                   widgetVars, callVars,
                   batchVars>>

Next ==
    \/ Tick(MaxTicks)
    \/ \E id \in RunIds, ai \in BOOLEAN, callback \in Callbacks,
          preview \in BOOLEAN, inputExists \in BOOLEAN :
           Start(id, ai, callback, preview, inputExists, FormFields)
    \/ Loaded
    \/ ResolveField
    \/ AiRequest
    \/ \E outcome \in BackendOutcomes : AiReturn(outcome)
    \/ \E outcome \in MedicalOutcomes : PartB(outcome)
    \/ Finish

Spec == Init /\ [][Next]_vars

\* The steps of a run in progress.  Each is the continuation of an await
\* of fillForm (the document is loaded, the backend answers, the document
\* is saved) or follows the step before it without waiting; the event loop
\* runs it once it can run, the backend being taken to answer or fail.
RunStep ==
    \/ Loaded
    \/ ResolveField
    \/ AiRequest
    \/ \E outcome \in BackendOutcomes : AiReturn(outcome)
    \/ \E outcome \in MedicalOutcomes : PartB(outcome)
    \/ Finish
SpecLive == Spec /\ WF_vars(RunStep)

(***************************************************************************)
(* The debug-gender script on its own, run again and again over the days.  *)
(***************************************************************************)
NextScript ==
    \/ Tick(MaxScriptTicks)
    \/ \E stream \in RngStarts : DebugGender(stream)

SpecScript == Init /\ [][NextScript]_vars

(***************************************************************************)
(* Runs over the documents that hold a field for every kind of mapping,    *)
(* in either order of their fields, with no backend for the field loop.    *)
(***************************************************************************)
FieldCallbacks == {"none", "medical"}

NextFields ==
    \/ Tick(MaxTicks)
    \/ \E id \in RunIds, callback \in FieldCallbacks, fields \in Documents :
           Start(id, callback # "none", callback, FALSE, TRUE, fields)
    \/ Loaded
    \/ ResolveField
    \/ \E outcome \in MedicalOutcomes : PartB(outcome)
    \/ Finish

SpecFields == Init /\ [][NextFields]_vars

(***************************************************************************)
(* batchFill (batch-fill.js 125-200): count runs with the run ids          *)
(* prefix-001, prefix-002, ..., each awaited before the next is started.   *)
(***************************************************************************)
\* A batch whose results leave out the runs that failed.
PushSuccessOnly(results, id, ok) ==
    IF ok THEN Append(results, [runId |-> id, success |-> TRUE]) ELSE results

\* results.push in the try block and in the catch block.
PushResult(results, id, ok) ==
    Append(results, [runId |-> id, success |-> ok])

InitBatch ==
    /\ NoBuild
    /\ NoWidget
    /\ clock = StartDay
    /\ rng \in RngStarts
    /\ dataFiles = [id \in BatchIds |-> NoFile]
    /\ builds = [id \in BatchIds |-> << >>]
    /\ firstSaved = [id \in BatchIds |-> NoFile]
    /\ run = IdleRun
    /\ outputs = [id \in BatchIds |-> << >>]
    /\ reports = [id \in BatchIds |-> << >>]
    /\ started = 0
    /\ NoCalls
    /\ NoBatch

\* batchFill(count, prefix, {useAI}) up to its loop.
BatchStart(count, useAI) ==
    /\ batch.pc = "idle"
    /\ batch' = [batch EXCEPT !.pc = "loop", !.count = count,
                              !.useAI = useAI, !.i = 1]
    /\ UNCHANGED <<buildVars, widgetVars, runVars, callVars>>

\* One pass of the loop up to the await: fillForm is called with the run
\* id of the index.
BatchCall(inputExists) ==
    /\ batch.pc = "loop"
    /\ batch.i <= batch.count
    /\ StartRun(RunIdOf(BatchPrefix, batch.i), batch.useAI,
                IF batch.useAI THEN "plain" ELSE "none", FALSE, inputExists,
                FormFields)
    /\ batch' = [batch EXCEPT !.pc = "awaiting"]

\* fillForm has returned or thrown: the result is pushed and the loop goes
\* on with the next index.
BatchCollect ==
    /\ batch.pc = "awaiting"
    /\ Resting
    /\ batch' = [batch EXCEPT
                    !.pc = "loop",
                    !.results = PushResult(@, run.runId, run.pc = "done"),
                    !.i = @ + 1]
    /\ UNCHANGED <<buildVars, widgetVars, runVars, callVars>>

\* The loop is over: the results are returned.
BatchReturn ==
    /\ batch.pc = "loop"
    /\ batch.i > batch.count
    /\ batch' = [batch EXCEPT !.pc = "returned"]
    /\ UNCHANGED <<buildVars, widgetVars, runVars, callVars>>

NextBatch ==
    \/ \E count \in 1..MaxRuns, useAI \in BOOLEAN : BatchStart(count, useAI)
    \/ \E inputExists \in BOOLEAN : BatchCall(inputExists)
    \/ Loaded
    \/ ResolveField
    \/ AiRequest
    \/ \E outcome \in BackendOutcomes : AiReturn(outcome)
    \/ \E outcome \in MedicalOutcomes : PartB(outcome)
    \/ Finish
    \/ BatchCollect
    \/ BatchReturn

SpecBatch == InitBatch /\ [][NextBatch]_vars

(***************************************************************************)
(* Overlapping runs: fillForm calls started before earlier ones have       *)
(* returned, all with AI and one callback made by createGroqCallback       *)
(* (ai-integration.js, kept in unnamed/part_003, 287-305).  A call runs    *)
(* until it reaches an await; while it runs no other call does.  Every     *)
(* call is started the way batch-fill.js starts one: resetCache, then      *)
(* fillForm.                                                               *)
(***************************************************************************)
\* The line of the description the backend generates for the context of a
\* run id (GroqProvider.generateDisabilityDescription).
GroqLine(owner, category) ==
    IF owner = DebugId
    THEN IF category = "disability_description"
         THEN "line1 for debug-gender" ELSE "line2 for debug-gender"
    ELSE IF category = "disability_description"
         THEN "line1 for batch-003" ELSE "line2 for batch-003"

CallField(p) == calls[p].doc[calls[p].next]
CallMapping(p) == FieldMappings(CallField(p))
CallInFieldLoop(p) ==
    /\ cpu = p
    /\ calls[p].pc = "fields"
    /\ calls[p].next <= Len(calls[p].doc)

\* resetCache, then fillForm up to its first await (batch-fill.js 151-156,
\* fill-form.js 160-183).
CallStart(p, id) ==
    /\ cpu = 0
    /\ calls[p].pc = "idle"
    /\ provider' = << >>
    /\ LET gen == Construct(id, dataFiles, rng, clock) IN
         /\ dataFiles' = gen.files
         /\ rng' = gen.rng
         /\ builds' = [builds EXCEPT ![id] = @ \o gen.built]
         /\ firstSaved' = IF gen.built = << >> THEN firstSaved
                          ELSE [firstSaved EXCEPT ![id] = gen.built]
         /\ calls' = [calls EXCEPT ![p] =
                         [IdleRun EXCEPT !.pc = "loading", !.runId = id,
                                         !.useAI = TRUE,
                                         !.data = <<gen.data>>]]
    /\ UNCHANGED <<cpu, clock, run, outputs, reports, started, buildVars,
                   widgetVars,
                   batchVars>>

\* PDFDocument.load resolves and the call runs again.
CallLoaded(p) ==
    /\ cpu = 0
    /\ calls[p].pc = "loading"
    /\ calls' = [calls EXCEPT ![p].pc = "fields", ![p].next = 1]
    /\ cpu' = p
    /\ UNCHANGED <<provider, runVars, buildVars, widgetVars,
                   batchVars>>

\* One pass of the field loop over a field that is not the backend's
\* (fill-form.js 194-301).
CallResolveField(p) ==
    /\ CallInFieldLoop(p)
    /\ CallMapping(p).type # "ai"
    /\ IF CallMapping(p).type = "none"
       THEN /\ calls' = [calls EXCEPT
                            ![p] = SkipUnmapped(@, CallField(p))]
            /\ rng' = rng
       ELSE LET res == ResolveValue(CallField(p), CallMapping(p),
                                    calls[p].data[1], clock, rng)
                out == ApplyValue(CallField(p), CallMapping(p).type,
                                  res.value)
            IN  /\ calls' = [calls EXCEPT
                                ![p].form = IF out.filled
                                            THEN [@ EXCEPT ![CallField(p)] =
                                                               out.wrote]
                                            ELSE @,
                                ![p].filled = IF out.filled
                                              THEN Append(@, CallField(p))
                                              ELSE @,
                                ![p].errors = IF out.threw
                                              THEN Append(@, CallField(p))
                                              ELSE @,
                                ![p].next = @ + 1]
                /\ rng' = res.rng
    /\ UNCHANGED <<provider, cpu, clock, dataFiles, builds, firstSaved, run,
                   outputs, reports, started, buildVars, widgetVars,
                   batchVars>>

\* getAIValue answered without the backend: from the dataset's content, or
\* by the provider from the description it has cached (data-generator.js
\* 462-470, GroqProvider.generate).
CallAiValue(p) ==
    /\ CallInFieldLoop(p)
    /\ CallMapping(p).type = "ai"
    /\ LET mem     == calls[p].data[1]
           cat     == CallMapping(p).category
           hit     == HasCachedContent(mem, cat)
           content == IF hit THEN CachedContent(mem, cat)
                      ELSE GroqLine(provider[1], cat)
           stored  == IF hit THEN mem ELSE StoreContent(mem, cat, content)
       IN  /\ hit \/ provider # << >>
           /\ dataFiles' = IF hit THEN dataFiles
                           ELSE saveData(dataFiles, calls[p].runId, stored)
           /\ calls' = [calls EXCEPT
                           ![p].data = <<stored>>,
                           ![p].form = SetText(@, CallField(p), content),
                           ![p].filled = PushFilled(@, CallField(p), content),
                           ![p].next = @ + 1]
    /\ UNCHANGED <<provider, cpu, clock, rng, builds, firstSaved, run,
                   outputs, reports, started, buildVars, widgetVars,
                   batchVars>>

\* getAIValue reaches the backend: the provider has nothing cached and
\* awaits the description (GroqProvider.generate).
CallAiRequest(p) ==
    /\ CallInFieldLoop(p)
    /\ CallMapping(p).type = "ai"
    /\ ~HasCachedContent(calls[p].data[1], CallMapping(p).category)
    /\ provider = << >>
    /\ calls' = [calls EXCEPT ![p].pc = "aiCall"]
    /\ cpu' = 0
    /\ UNCHANGED <<provider, runVars, buildVars, widgetVars,
                   batchVars>>

\* The backend answers: the provider caches the description generated for
\* the caller's context and returns its line; the generator stores and
\* saves it and the field is written.
CallAiReturn(p) ==
    /\ cpu = 0
    /\ calls[p].pc = "aiCall"
    /\ provider' = <<calls[p].runId>>
    /\ LET mem     == calls[p].data[1]
           cat     == CallMapping(p).category
           content == GroqLine(calls[p].runId, cat)
           stored  == StoreContent(mem, cat, content)
       IN  /\ dataFiles' = saveData(dataFiles, calls[p].runId, stored)
           /\ calls' = [calls EXCEPT
                           ![p].pc = "fields",
                           ![p].data = <<stored>>,
                           ![p].form = SetText(@, CallField(p), content),
                           ![p].filled = PushFilled(@, CallField(p), content),
                           ![p].next = @ + 1]
    /\ cpu' = p
    /\ UNCHANGED <<clock, rng, builds, firstSaved, run, outputs, reports,
                   started, buildVars, widgetVars,
                   batchVars>>

\* The field loop is over; the call awaits the font (fill-form.js 303-352).
CallEmbedFont(p) ==
    /\ cpu = p
    /\ calls[p].pc = "fields"
    /\ calls[p].next > Len(calls[p].doc)
    /\ calls' = [calls EXCEPT ![p].pc = "partB"]
    /\ cpu' = 0
    /\ UNCHANGED <<provider, runVars, buildVars, widgetVars,
                   batchVars>>

\* The Part B loop, the output document and the report (fill-form.js
\* 354-494).
CallFinish(p) ==
    /\ cpu = 0
    /\ calls[p].pc = "partB"
    /\ LET drawn == PartBLoop(1, calls[p].data[1], MedicalDetails,
                              calls[p].filled, calls[p].errors)
       IN  /\ calls' = [calls EXCEPT ![p].pc = "done",
                                     ![p].filled = drawn.filled,
                                     ![p].errors = drawn.errors]
           /\ outputs' = [outputs EXCEPT ![calls[p].runId] =
                             <<[doc |-> calls[p].doc, form |-> calls[p].form]>>]
           /\ reports' = [reports EXCEPT ![calls[p].runId] =
                             <<[filledFields  |-> Len(drawn.filled),
                                skippedFields |-> Len(calls[p].skipped),
                                errors        |-> Len(drawn.errors)]>>]
    /\ UNCHANGED <<provider, cpu, clock, rng, dataFiles, builds, firstSaved,
                   run, started, buildVars, widgetVars,
                   batchVars>>

NextConcurrent ==
    \E p \in Callers :
        \/ \E id \in RunIds : CallStart(p, id)
        \/ CallLoaded(p)
        \/ CallResolveField(p)
        \/ CallAiValue(p)
        \/ CallAiRequest(p)
        \/ CallAiReturn(p)
        \/ CallEmbedFont(p)
        \/ CallFinish(p)

SpecConcurrent == Init /\ [][NextConcurrent]_vars

Built == bData # << >>
TheData == bData[1]

(***************************************************************************)
(* Properties of the built dataset.                                        *)
(***************************************************************************)

\* The gated pairs of priorBenefits and conditionalData other than the
\* unemployment explanation: the field is empty exactly when its gate is false.
GatedPairsHold(d) ==
    LET chk == d.checkboxes
        pbf == d.priorBenefits
        cdf == d.conditionalData
    IN  /\ (pbf.claimedFrom = "") <=> ~chk.receivingWages
        /\ (pbf.claimedPeriodStart = null) <=> ~chk.receivingWages
        /\ (pbf.claimedPeriodEnd = null) <=> ~chk.receivingWages
        /\ (pbf.priorDisabilityPaidBy = "") <=> ~chk.priorDisability
        /\ (pbf.priorDisabilityStart = null) <=> ~chk.priorDisability
        /\ (pbf.priorDisabilityEnd = null) <=> ~chk.priorDisability
        /\ (pbf.priorPFLPaidBy = "") <=> ~chk.priorPFL
        /\ (pbf.priorPFLStart = null) <=> ~chk.priorPFL
        /\ (pbf.priorPFLEnd = null) <=> ~chk.priorPFL
        /\ (cdf.returnToWorkDate = null) <=> ~chk.hasRecovered
        /\ (cdf.workedForWagesDates = << >>) <=> ~chk.workedForWages
        /\ (cdf.unemploymentPeriods = << >>) <=> ~chk.unemploymentBenefits
        /\ (cdf.wagesContinuedType = "") <=> ~chk.wagesContinued
        /\ (cdf.priorDisabilityDates = << >>) <=> ~chk.priorLeave
        /\ (cdf.priorPFLDates = << >>) <=> ~chk.priorPFL

\* C2, as stated: in every built dataset every conditional field, the
\* unemployment explanation included, is empty if and only if its gating
\* boolean is false.
C2_AllGatedFieldsEmptyIffGateFalse ==
    Built =>
        /\ GatedPairsHold(TheData)
        /\ (TheData.conditionalData.unemploymentExplanation = "")
              <=> ~TheData.checkboxes.unemploymentBenefits

\* C2, as amended: in every built dataset every conditional field is empty if
\* and only if its gating boolean is false, except the unemployment
\* explanation, whose gate is inverted: it is empty if and only if
\* unemploymentBenefits is true.
C2_GatingWithInvertedExplanation ==
    Built =>
        /\ GatedPairsHold(TheData)
        /\ (TheData.conditionalData.unemploymentExplanation = "")
              <=> TheData.checkboxes.unemploymentBenefits

\* A built dataset with gates of both polarities, the unemployment gate true.
C2_Witness ==
    /\ Built
    /\ TheData.checkboxes.unemploymentBenefits
    /\ TheData.checkboxes.receivingWages
    /\ TheData.checkboxes.workedForWages
    /\ ~TheData.checkboxes.priorDisability
    /\ TheData.conditionalData.unemploymentExplanation = ""

\* C8: in every built dataset dateOfBirth < employmentStart < lastDayWorked
\* < disabilityStart <= signatureDate.
C8_DatesOrdered ==
    Built =>
        /\ TheData.claimant.dateOfBirth < TheData.dates.employmentStart
        /\ TheData.dates.employmentStart < TheData.dates.lastDayWorked
        /\ TheData.dates.lastDayWorked < TheData.dates.disabilityStart
        /\ TheData.dates.disabilityStart <= TheData.dates.signatureDate

\* A built dataset of a claimant under 30 years employed for the full 10 years.
C8_Witness ==
    /\ Built
    /\ TheData.dates.lastDayWorked - TheData.dates.employmentStart = 10 * YearDays
    /\ TheData.dates.signatureDate - TheData.claimant.dateOfBirth < 30 * YearDays

\* C9: in every built dataset the ledger has 8 week records and
\* averageWeeklyWage is their mean rounded to the nearest cent: 8 times the
\* average differs from the sum of the 8 gross amounts by less than half a
\* cent per week (a half rounds up).
C9_AverageIsRoundedMean ==
    Built =>
        LET wk  == TheData.wages.weeklyWages
            total == wk[1].grossAmount + wk[2].grossAmount + wk[3].grossAmount
                       + wk[4].grossAmount + wk[5].grossAmount + wk[6].grossAmount
                       + wk[7].grossAmount + wk[8].grossAmount
            avg == TheData.wages.averageWeeklyWage
        IN  /\ Len(wk) = 8
            /\ (8 * avg) - 4 <= total
            /\ total < (8 * avg) + 4

\* A built dataset whose mean falls exactly on a half cent.
C9_Witness ==
    /\ Built
    /\ SumGross(TheData.wages.weeklyWages, 8) % 8 = 4
    /\ TheData.wages.averageWeeklyWage # TheData.wages.baseWeeklyWage

(***************************************************************************)
(* Properties of the checkbox branch.                                      *)
(***************************************************************************)
SelectionApplied == wBefore # << >> /\ wFilled.kind # "none"

\* C3: after a discrete-state selection has been applied to a checkbox
\* field, whatever its widgets' on-state sets and whatever it showed
\* before, at most one of the field's reported on-states is active.
C3_AtMostOneOnStateActive ==
    SelectionApplied => Cardinality(ActiveOnStates(wField)) <= 1

\* A field that showed two on-states at once has had a selection applied
\* that switched one of its on-states on.
C3_Witness ==
    /\ SelectionApplied
    /\ Cardinality(ActiveOnStates(wBefore[1])) = 2
    /\ Cardinality(ActiveOnStates(wField)) = 1
    /\ wFilled.kind = "checkbox-multi"

(***************************************************************************)
(* Properties of repeated builds.                                          *)
(***************************************************************************)
\* The fields of a dataset that are not computed from the clock.
ClockFree(d) ==
    [runId      |-> d.runId,
     seed       |-> d.seed,
     names      |-> <<d.claimant.firstName, d.claimant.lastName,
                      d.claimant.middleInitial, d.claimant.occupation>>,
     ssn        |-> d.claimant.ssn,
     phone      |-> d.claimant.phone,
     employer   |-> d.employer,
     wages      |-> <<d.wages.baseWeeklyWage, d.wages.averageWeeklyWage>>,
     ledger     |-> [i \in 1..8 |-> <<d.wages.weeklyWages[i].daysWorked,
                                      d.wages.weeklyWages[i].grossAmount>>],
     union      |-> d.union,
     disability |-> d.disability,
     checkboxes |-> d.checkboxes,
     payers     |-> <<d.priorBenefits.claimedFrom,
                      d.priorBenefits.priorDisabilityPaidBy,
                      d.priorBenefits.priorPFLPaidBy>>,
     narrative  |-> <<d.conditionalData.unemploymentExplanation,
                      d.conditionalData.wagesContinuedType>>,
     aiContent  |-> d.aiContent]

\* C1 as stated: for a fixed run id, two independent dataset builds, each
\* on a cache miss and before any AI content is added, produce identical
\* datasets, field for field.
C1_IndependentBuildsIdentical ==
    \A id \in RunIds : \A i, j \in 1..Len(builds[id]) :
        builds[id][i] = builds[id][j]

\* C1 as the builder has it: two independent builds for a run id agree on
\* every field that is not computed from the clock, and are identical field
\* for field when both were made at the same clock reading.
C1_IndependentBuildsAgreeUpToClock ==
    \A id \in RunIds : \A i, j \in 1..Len(builds[id]) :
        /\ ClockFree(builds[id][i]) = ClockFree(builds[id][j])
        /\ builds[id][i].generatedAt = builds[id][j].generatedAt
               => builds[id][i] = builds[id][j]

\* The script has built the dataset of its run id three times, twice on one
\* day and once on a later day.
C1_Witness ==
    /\ Len(builds[DebugId]) = 3
    /\ builds[DebugId][1].generatedAt = builds[DebugId][2].generatedAt
    /\ builds[DebugId][2].generatedAt < builds[DebugId][3].generatedAt
    /\ builds[DebugId][2].dates.disabilityStart
           < builds[DebugId][3].dates.disabilityStart

(***************************************************************************)
(* Properties of form-filling runs.                                        *)
(***************************************************************************)
InputChoices == BOOLEAN \X Callbacks \X BOOLEAN

\* C4: within one run id with AI enabled, a request for a category that has
\* been requested before does not invoke the backend again, whatever text
\* the backend returned the first time, and yields the string stored then.
C4_RepeatRequestUsesStoredContent ==
    [][(/\ InFieldLoop
        /\ CurrentMapping.type = "ai"
        /\ run.useAI
        /\ CurrentMapping.category \in DOMAIN run.data[1].aiContent)
         => run' = WithText(CachedContent(run.data[1],
                                          CurrentMapping.category))]_vars

\* C5: when the backend fails for a disability-description category, the
\* field is given the dataset's static description for that category.
C5_FailedRequestFallsBackToDescription ==
    \A name \in run.failed :
        run.form[name] = FallbackDescription(
                             run.data[1], FieldMappings(name).category)

\* C6: creating the generator for a run id whose data file exists returns
\* the record exactly as persisted, accumulated AI content included, builds
\* nothing and rewrites nothing.
C6_CacheHitReturnsPersistedRecord ==
    [][\A id \in RunIds : \A choice \in InputChoices :
          (/\ dataFiles[id] # NoFile
           /\ Start(id, choice[1], choice[2], choice[3], TRUE, FormFields))
            => /\ run'.data = dataFiles[id]
               /\ dataFiles' = dataFiles
               /\ builds' = builds
               /\ rng' = rng]_vars

\* A run has been started on a data file that holds AI content for both
\* categories and is about to load the form.
C6_Witness ==
    /\ run.pc = "loading"
    /\ started = 2
    /\ DOMAIN run.data[1].aiContent = Categories
    /\ run.data[1].aiContent["disability_description"] = "AI text"

NonAIFields(d) == [k \in (DOMAIN d) \ {"aiContent"} |-> d[k]]

\* C7: after any sequence of form-filling runs over a run id, with or
\* without AI, in preview or not, every field of the persisted dataset other
\* than aiContent has the value it had when the dataset was first persisted.
C7_PersistedFieldsNeverChange ==
    \A id \in RunIds :
        dataFiles[id] # NoFile
            => /\ firstSaved[id] # NoFile
               /\ NonAIFields(dataFiles[id][1]) = NonAIFields(firstSaved[id][1])

\* A second run over a run id has stored AI content in the data file and
\* merged the medical details into its in-memory data.
C7_Witness ==
    /\ started = 2
    /\ run.pc = "finishing"
    /\ "medical" \in DOMAIN run.data[1]
    /\ dataFiles[run.runId] # NoFile
    /\ DOMAIN dataFiles[run.runId][1].aiContent = Categories
    /\ dataFiles[run.runId][1].generatedAt < clock

\* C10: when the input form document is missing, the run fails before any
\* work is done: no dataset is built or persisted, no output document and no
\* report is written.
C10_MissingInputDoesNoWork ==
    [][\A id \in RunIds : \A choice \in InputChoices :
          Start(id, choice[1], choice[2], choice[3], FALSE, FormFields)
            => /\ dataFiles' = dataFiles
               /\ builds' = builds
               /\ outputs' = outputs
               /\ reports' = reports]_vars

(***************************************************************************)
(* Properties of the field loop and of the Part B loop.                    *)
(***************************************************************************)
FieldLoopOver == run.pc = "finishing"

\* The value the field loop resolves for a field of the run's document and
\* what applying it does, read off the run's dataset.
ValueOf(name) ==
    ResolveValue(name, FieldMappings(name), run.data[1], clock, rng).value
OutcomeOf(name) == ApplyValue(name, FieldMappings(name).type, ValueOf(name))
Raises(name) ==
    /\ FieldMappings(name).type \notin {"none", "ai"}
    /\ ~IsCheckBox(name)
    /\ ValueOf(name) \notin {"", "null"}
    /\ SetTextThrows(name, ValueOf(name))
SkippedNames == {run.skipped[i].name : i \in 1..Len(run.skipped)}
\* A field the loop went through leaves a trace unless its value is blank.
Processed(name) ==
    \/ name \in NamesOf(run.filled)
    \/ name \in SkippedNames
    \/ name \in NamesOf(run.errors)
    \/ /\ FieldMappings(name).type \notin {"none", "ai"}
       /\ ~OutcomeOf(name).filled

\* C11: a field whose setter throws is recorded in the error list under its
\* name and every field after it is still processed; a Part B entry whose
\* drawing throws is recorded under its key and every entry after it is
\* still drawn.
C11_ErrorRecordedAndLaterFieldsProcessed ==
    FieldLoopOver =>
        /\ \A i \in 1..Len(run.doc) :
               Raises(run.doc[i]) =>
                   /\ run.doc[i] \in NamesOf(run.errors)
                   /\ run.doc[i] \notin NamesOf(run.filled)
                   /\ \A j \in (i + 1)..Len(run.doc) : Processed(run.doc[j])
        /\ ("medical" \in DOMAIN run.data[1]
              /\ DrawTextThrows(run.data[1].medical.diagnosisAnalysis)) =>
               /\ "Part B - Diagnosis analysis" \in NamesOf(run.errors)
               /\ "[Part B] diagnosis code" \in NamesOf(run.filled)
               /\ "[Part B] license or certified state"
                      \in NamesOf(run.filled)

\* A run in which a text field and a Part B entry both threw, with fields
\* and entries after them filled.
C11_Witness ==
    /\ FieldLoopOver
    /\ run.doc = CatalogueFields
    /\ Raises("13 - Social Security")
    /\ "13 - Social Security" \in NamesOf(run.errors)
    /\ "39 - Last Day Worked" \in NamesOf(run.filled)
    /\ "Part B - Diagnosis analysis" \in NamesOf(run.errors)
    /\ "[Part B] license or certified state" \in NamesOf(run.filled)

\* The fields of the run's document that an earlier pass over the same run
\* id wrote to the output document as well.
EarlierOutput == outputs[run.runId][1]
SecondPass == FieldLoopOver /\ outputs[run.runId] # << >>
NonAI(name) == FieldMappings(name).type \notin {"none", "ai"}
CommonFields == NamesOf(run.doc) \cap NamesOf(EarlierOutput.doc)

\* C12: over one dataset and on one day, every field whose value does not
\* come from the backend gets the value an earlier pass gave it, whatever
\* the order of the fields was in either pass and wherever the faker stream
\* stood when the field was reached.
C12_NonAIValuesIndependentOfOrder ==
    (SecondPass /\ clock = StartDay) =>
        \A name \in CommonFields :
            NonAI(name) => run.form[name] = EarlierOutput.form[name]

\* A second pass over the fields in the opposite order, on the day of the
\* first, that wrote a random text, a computed text, a boolean checkbox
\* and a multi-option checkbox.
C12_Witness ==
    /\ SecondPass
    /\ clock = StartDay
    /\ run.doc = Reverse(EarlierOutput.doc)
    /\ run.form["2 - Last Name"] # ""
    /\ run.form["39 - Last Day Worked"] # ""
    /\ run.form["9 - If yes is checked"] \in {"Received", "Claimed"}
    /\ run.form["90 - Unlisted checkbox"] # ""
    /\ run.form["27 - Have you recovered from this disability?"] # ""

\* C13: a computed rule returns the same value whenever it is evaluated
\* against the same dataset: every field with a computed value gets, on a
\* second pass over the run id, the value the earlier pass gave it.
C13_ComputedValuesSameOnEveryPass ==
    SecondPass =>
        \A name \in CommonFields :
            FieldMappings(name).type \in {"calculated", "checkbox-multi"}
                => run.form[name] = EarlierOutput.form[name]

(***************************************************************************)
(* Properties of overlapping runs.                                         *)
(***************************************************************************)
\* The value a run over run id id writes to a field when no other run
\* overlaps it.
ValueAlone(id, name, mem) ==
    IF FieldMappings(name).type = "ai"
    THEN GroqLine(id, FieldMappings(name).category)
    ELSE ResolveValue(name, FieldMappings(name), mem, clock, rng).value
DistinctRunIds ==
    \A p \in Callers : \A q \in Callers \ {p} :
        (calls[p].pc # "idle" /\ calls[q].pc # "idle")
            => calls[p].runId # calls[q].runId

\* C14: with distinct run ids, every run has the dataset built for its run
\* id and every field it has written holds the value the run writes when
\* it runs alone, however the runs overlap.
C14_OverlappingRunsDoNotInterfere ==
    DistinctRunIds =>
        \A p \in Callers :
            calls[p].pc # "idle" =>
                /\ NonAIFields(calls[p].data[1])
                       = NonAIFields(SeededBuild[calls[p].runId, clock])
                /\ \A name \in NamesOf(calls[p].doc) :
                       calls[p].form[name] # "" =>
                           calls[p].form[name]
                               = ValueAlone(calls[p].runId, name,
                                            calls[p].data[1])

\* C15: every category the data file of a run id holds is still in the
\* file, with its text, after any step.
C15_PersistedCategoriesStay ==
    [][\A id \in RunIds :
          dataFiles[id] # NoFile =>
              \A cat \in DOMAIN dataFiles[id][1].aiContent :
                  /\ cat \in DOMAIN dataFiles'[id][1].aiContent
                  /\ dataFiles'[id][1].aiContent[cat]
                         = dataFiles[id][1].aiContent[cat]]_vars

(***************************************************************************)
(* Properties of the checkbox branch.                                      *)
(***************************************************************************)
Applied == wBefore # << >>
OnStateSet == ReportedOnStates(wBefore[1])
FirstDeclared == getCheckboxOnValues(wBefore[1])[1].value

\* C16: on a checkbox whose on-states are exactly Yes and No, the boolean
\* true leaves Yes and only Yes active, the boolean false No and only No.
C16_YesNoFollowsBoolean ==
    (Applied /\ OnStateSet = {"Yes", "No"} /\ wValue \in {"true", "false"})
        => ActiveOnStates(wField)
               = {IF wValue = "true" THEN "Yes" ELSE "No"}

\* C17: on a checkbox with more than one on-state that are not the pair Yes
\* and No, a value naming an on-state leaves that state and only it active,
\* the boolean true the first declared on-state, and the boolean false or
\* an absent value none.
C17_MultiStateSelection ==
    (Applied /\ Cardinality(OnStateSet) > 1 /\ OnStateSet # {"Yes", "No"})
        => /\ wValue \in OnStateSet => ActiveOnStates(wField) = {wValue}
           /\ wValue = "true" => ActiveOnStates(wField) = {FirstDeclared}
           /\ wValue \in {"false", "null"} => ActiveOnStates(wField) = {}

(***************************************************************************)
(* Properties of the fields the loop leaves alone.                         *)
(***************************************************************************)
\* The fields whose mapping names a rule or a method the generator does not
\* have.
UnknownSource(name) ==
    name \in {"91 - Unlisted rule", "92 - Unlisted method",
              "93 - Unlisted rule checkbox"}
LeftBlank(name) == run.form[name] = "" /\ name \notin NamesOf(run.filled)
LaterFieldsProcessed(i) ==
    \A j \in (i + 1)..Len(run.doc) : Processed(run.doc[j])

\* C18: a field whose mapping names an unknown rule or method has nothing
\* written to it, is not among the filled fields, and the fields after it
\* are processed.
C18_UnknownSourceSkipsField ==
    FieldLoopOver =>
        \A i \in 1..Len(run.doc) :
            UnknownSource(run.doc[i]) =>
                LeftBlank(run.doc[i]) /\ LaterFieldsProcessed(i)

Empty(name) == NonAI(name) /\ ValueOf(name) \in {"", "null"}
\* C19: a field whose value is empty or null has nothing written to it and
\* is not among the filled fields.
C19_EmptyValueLeavesFieldBlank ==
    FieldLoopOver =>
        \A name \in NamesOf(run.doc) : Empty(name) => LeftBlank(name)

\* C20: a field without a mapping is in the skipped list with the reason
\* 'No mapping defined', is not among the errors or the filled fields, has
\* nothing written to it, and the fields after it are processed.
C20_UnmappedFieldSkipped ==
    FieldLoopOver =>
        \A i \in 1..Len(run.doc) :
            FieldMappings(run.doc[i]).type = "none" =>
                /\ \E k \in 1..Len(run.skipped) :
                       run.skipped[k] = [name |-> run.doc[i],
                                         reason |-> "No mapping defined"]
                /\ run.doc[i] \notin NamesOf(run.errors)
                /\ LeftBlank(run.doc[i])
                /\ LaterFieldsProcessed(i)

\* The unmapped signature field was skipped in a run that filled a field
\* after it and recorded an error for another.
C20_Witness ==
    /\ FieldLoopOver
    /\ run.doc = CatalogueFields
    /\ "Signature of claimant" \in SkippedNames
    /\ "90 - Unlisted checkbox" \in NamesOf(run.filled)
    /\ run.errors # << >>

(***************************************************************************)
(* Properties of the claim form filled from a built dataset.               *)
(***************************************************************************)
Filled == bForm # << >>
TheForm == bForm[1]
LeaveOption ==
    TheForm["47 - In the preceding 52 weeks has the employee taken leave for:"]

\* C21: on the filled form the leave option is NYS Disability or Both
\* exactly when the prior-disability dates field (48) is written, and PFL
\* or Both exactly when the prior-PFL dates field (49) is written.
C21_LeaveOptionAgreesWithDates ==
    Filled =>
        /\ LeaveOption \in {"NYS#20Disability", "Both"}
              <=> TheForm["48 - Disability Please provide specific dates for disability"] # ""
        /\ LeaveOption \in {"PFL", "Both"}
              <=> TheForm["49 - PFL: Please provide specific dates for PFL"] # ""

\* C22: the dataset's description1 and description2 are line1 and line2 of
\* the sample at index hash(runId) mod 5, the seed of the build being the
\* hash of the run id.
C22_DescriptionIsSampleAtHashMod5 ==
    Built =>
        LET sample == SampleDisabilityDescriptions[(bSeed % 5) + 1]
        IN  /\ TheData.disability.description1 = sample.line1
            /\ TheData.disability.description2 = sample.line2

(***************************************************************************)
(* Properties of a batch.                                                  *)
(***************************************************************************)
\* C23: a batch takes the run ids prefix-001, prefix-002, ... one at a
\* time in increasing order: a run is started only when every earlier run
\* has its result record; record k is that of prefix-k, of a failed run as
\* well; every run that was started has a data file of its own under its
\* run id, and every run that succeeded its own output; the batch returns
\* exactly count records.
C23_BatchRunsInOrderOneAtATime ==
    /\ \A k \in 1..Len(batch.results) :
          /\ batch.results[k].runId = RunIdOf(BatchPrefix, k)
          /\ dataFiles[batch.results[k].runId] # NoFile
          /\ dataFiles[batch.results[k].runId][1].runId
                = batch.results[k].runId
          /\ batch.results[k].success
                <=> outputs[batch.results[k].runId] # << >>
    /\ batch.pc = "loop" =>
          /\ Len(batch.results) = batch.i - 1
          /\ started = batch.i - 1
    /\ batch.pc = "awaiting" =>
          /\ Len(batch.results) = batch.i - 1
          /\ started = batch.i
          /\ run.runId = RunIdOf(BatchPrefix, batch.i)
    /\ batch.pc = "returned" => Len(batch.results) = batch.count

\* A batch of two has returned: its first run failed and its second run
\* succeeded.
C23_Witness ==
    /\ batch.pc = "returned"
    /\ batch.count = 2
    /\ ~batch.results[1].success
    /\ batch.results[2].success

InLoop == run.pc \in {"fields", "aiCall"}
\* The number of entries the three lists hold for a field.
RECURSIVE CountIn(_, _)
CountIn(name, seq) ==
    IF seq = << >> THEN 0
    ELSE (IF Head(seq) = name THEN 1 ELSE 0) + CountIn(name, Tail(seq))
Traces(name) ==
    CountIn(name, run.filled) + CountIn(name, run.errors)
        + CountIn(name, [k \in 1..Len(run.skipped) |-> run.skipped[k].name])

\* C25: in the field loop the fields before the current one have at most
\* one entry in the lists and the fields from the current one on have none
\* and are blank; a step moves the loop to the next field or leaves it at
\* the current one; and while the backend is asked for the current field
\* nothing changes until its content is written to that field, which moves
\* the loop on by one.
C25_FieldsResolvedInOrderOnce ==
    /\ [](InLoop =>
            \A k \in 1..Len(run.doc) :
                /\ Traces(run.doc[k]) <= 1
                /\ k >= run.next =>
                      /\ Traces(run.doc[k]) = 0
                      /\ run.form[run.doc[k]] = "")
    /\ [][/\ (InLoop /\ InLoop') =>
                run'.next \in {run.next, run.next + 1}
          /\ run.pc = "aiCall" =>
                /\ run'.pc = "fields"
                /\ run'.next = run.next + 1
                /\ \A k \in 1..Len(run.doc) :
                      k # run.next => run'.form[run.doc[k]]
                                         = run.form[run.doc[k]]]_vars

\* The backend was asked for the first description field, answered, and is
\* being asked for the second: the first is written, the second is not.
C25_Witness ==
    /\ run.pc = "aiCall"
    /\ CurrentField = "21 - Describe your disability 2"
    /\ run.form["20 - Describe your disability 1"] # ""
    /\ run.form["21 - Describe your disability 2"] = ""

(***************************************************************************)
(* Properties of the choice between the backend and the static texts.      *)
(***************************************************************************)
AtAiField == InFieldLoop /\ CurrentMapping.type = "ai"
StaticDescription(mem, name) ==
    IF name = "20 - Describe your disability 1"
    THEN mem.disability.description1
    ELSE mem.disability.description2

Ledger == TheData.wages.weeklyWages

\* C27: on the filled form, for every week 1..8 the week-ending date, the
\* days worked and the gross amount of the Part C breakdown equal those of
\* the Part A breakdown, and both equal the week's record of the ledger.
C27_WageBreakdownsAgreeWithLedger ==
    Filled =>
        \A week \in Weeks :
            /\ TheForm[PartAWeekEnd(week)]
                  = formatDate(Ledger[week].weekEndDate).full
            /\ TheForm[PartCWeekEnd(week)] = TheForm[PartAWeekEnd(week)]
            /\ TheForm[PartADays(week)] = ToString(Ledger[week].daysWorked)
            /\ TheForm[PartCDays(week)] = TheForm[PartADays(week)]
            /\ TheForm[PartAGross(week)] = toFixed2(Ledger[week].grossAmount)
            /\ TheForm[PartCGross(week)] = TheForm[PartAGross(week)]


\* C28: every built dataset has a ledger of exactly 8 records with
\* weekNumber 1..8 in order and daysWorked 4 or 5; week 1 ends on the last
\* day worked and week n ends 7*(n-1) days before it; a lookup by a week
\* number outside 1..8 gives the empty value for every week rule, and the
\* field that asks for it is left blank.
C28_LedgerHasEightWeeksBackFromLastDay ==
    /\ Built =>
          /\ Len(Ledger) = 8
          /\ \A week \in Weeks :
                /\ Ledger[week].weekNumber = week
                /\ Ledger[week].daysWorked \in {4, 5}
                /\ Ledger[week].weekEndDate
                      = TheData.dates.lastDayWorked - (7 * (week - 1))
          /\ Ledger[1].weekEndDate = TheData.dates.lastDayWorked
          /\ \A rule \in WeekRules, outside \in {0, 9} :
                getWeekValue(rule, outside, TheData) = ""
    /\ Filled =>
          /\ TheForm["94 - Unlisted week"] = ""
          /\ \A week \in Weeks :
                TheForm[PartCWeekEnd(week)]
                   = formatDate(TheData.dates.lastDayWorked
                                   - (7 * (week - 1))).full

\* A form filled from a ledger in which both counts of days occur.
C28_Witness ==
    /\ Filled
    /\ Ledger[1].daysWorked = 5
    /\ Ledger[8].daysWorked = 4
    /\ TheForm[PartCWeekEnd(8)] # ""
    /\ TheForm["94 - Unlisted week"] = ""


(***************************************************************************)
(* Properties of the claimant's name and bank account on the form.         *)
(***************************************************************************)

\* C29: on the filled form the Part A text fields for last name, first
\* name and middle initial hold the dataset's claimant.lastName,
\* claimant.firstName and claimant.middleInitial, the values that Part B
\* draws and that the summary reports as the claimant's full name.
C29_PartANameIsTheClaimantsName ==
    Filled =>
        /\ TheForm["2 - Last Name"] = TheData.claimant.lastName
        /\ TheForm["3 - First Name"] = TheData.claimant.firstName
        /\ TheForm["3a - Middle Initial"] = TheData.claimant.middleInitial
        /\ TheForm["2 - Last Name"]
              = PartBValue("last name claimant", TheData, MedicalDetails)
        /\ TheForm["3 - First Name"]
              = PartBValue("first name claimant", TheData, MedicalDetails)
        /\ TheForm["3a - Middle Initial"]
              = PartBValue("middle initial claimant", TheData, MedicalDetails)
        /\ TheData.claimant.fullName
              = << TheForm["3 - First Name"], TheForm["3a - Middle Initial"],
                   TheForm["2 - Last Name"] >>


\* The probabilities a mapping may declare, in percent.
Percents == {0, 20, 50, 80, 100}
Ticked(name) == TheForm[name] \notin {"", Off}

\* C30: for every dataset exactly one of '4 Checking account' and
\* '4 Savings account' resolves to true: checking is the stored
\* checkingAccount state and savings is its negation under every declared
\* probability; on the filled form exactly one of the two boxes is ticked.
C30_ExactlyOneAccountType ==
    /\ Built =>
          \A chance \in Percents, other \in Percents :
              LET checking == getCheckboxValue("4 Checking account", chance,
                                               TheData, SeedState(bSeed))
                  savings  == getCheckboxValue("4 Savings account", other,
                                               TheData, SeedState(bSeed))
              IN  /\ (checking = "true") = TheData.checkboxes.checkingAccount
                  /\ (savings = "true") = ~TheData.checkboxes.checkingAccount
                  /\ {checking, savings} = {"true", "false"}
    /\ Filled =>
          /\ Ticked("4 Checking account") = TheData.checkboxes.checkingAccount
          /\ Ticked("4 Savings account") = ~Ticked("4 Checking account")

\* A form filled from a dataset without a checking account: the savings
\* box is the one ticked.
C30_Witness ==
    /\ Filled
    /\ ~TheData.checkboxes.checkingAccount
    /\ Ticked("4 Savings account")
    /\ ~Ticked("4 Checking account")

====
